---- MODULE Spec2Model ----
(***************************************************************************)
(* Order lifecycle of the futures orchestrator                             *)
(* (futures_gpt_orchestrator_full.py, positions.py, trading_utils.py).     *)
(*                                                                         *)
(* The exchange is a set of order records and a position per pair; the     *)
(* local store LIMIT_ORDER_DIR is a set of file records, one file name per *)
(* pair.  Every handler of the orchestrator is an operator from a world    *)
(* (orders, files, positions, and the calls the handler has issued so far) *)
(* to a world, translated statement by statement; an action applies one    *)
(* handler to the current state.                                           *)
(* Exchange calls may fail: a fault names the kinds of call that raise and *)
(* the pairs whose calls are hit during one handler run.                   *)
(***************************************************************************)
EXTENDS Integers, Sequences, FiniteSets, Bags, TLC

VARIABLES
    orders,      \* exchange: set of order records (open, closed, canceled)
    positions,   \* exchange: pair -> position record (qty 0 = flat)
    files,       \* LIMIT_ORDER_DIR: set of PendingEntry file records
    nextId,      \* exchange: next order id
    now,         \* time.time(), seconds
    bias,        \* the side the oracle proposes entries on in this behaviour
    jobs,        \* live_loop: where each scheduled job stands, and its locals
    tool         \* a call of a helper (send_openai, the parser, the sizer) in progress

vars == <<orders, positions, files, nextId, now, bias, jobs, tool>>

----------------------------------------------------------------------------
\* Bounds of the model

MaxOrders == 4      \* orders that are open or named by a file at one time
MaxTicks == 1       \* clock advances in one behaviour
MaxCoins == 1       \* coins the oracle returns in one cycle
MaxJobRuns == 2     \* runs of each scheduled job in one behaviour of live_loop
TickSec == 1800     \* seconds of one clock advance

\* Program constants
LIMIT_ORDER_EXPIRY_MIN == 30
MAX_AGE_SEC == 600 * 3

None == 0 - 1       \* Python None where a number is optional

PAIRS == {"BTCUSDT"}

\* run, line 222: max_pos = env_int("MAX_OPEN_POSITIONS", 10); the environment sets
\* the limit to the number of pairs traded, so that the open positions can reach it
MAX_OPEN_POSITIONS == Cardinality(PAIRS)

\* trading_utils.to_ccxt_symbol on the pairs of the model (quote USDT)
to_ccxt_symbol(pair) ==
    CASE pair = "BTCUSDT" -> "BTC/USDT"
      [] pair = "ETHUSDT" -> "ETH/USDT"
      [] OTHER -> pair

\* positions._norm_pair_from_symbol: drop the "/" of the symbol
norm_pair_from_symbol(symbol) ==
    CASE symbol = "BTC/USDT" -> "BTCUSDT"
      [] symbol = "ETH/USDT" -> "ETHUSDT"
      [] OTHER -> symbol

\* str.lower() on the order types the orchestrator sends
Lower(t) ==
    CASE t = "LIMIT" -> "limit"
      [] t = "STOP_MARKET" -> "stop_market"
      [] t = "TAKE_PROFIT_MARKET" -> "take_profit_market"
      [] t = "MARKET" -> "market"
      [] OTHER -> t

\* the exit side taken to be the entry side (a variant that swaps nothing)
ExitSideSame(side) == side

\* _place_sl_tp, line 114: exit_side = "sell" if side == "buy" else "buy"
ExitSide(side) == IF side = "buy" THEN "sell" ELSE "buy"

----------------------------------------------------------------------------
\* Faults: the exchange calls that raise during one handler run

NoFault == [kinds |-> {}, pairs |-> {}]

\* the faults of one handler run: at most `n` of the `kinds` fail, for the pairs hit
Faults(kinds, n) ==
    {NoFault} \cup
    {fl \in [kinds : SUBSET kinds, pairs : (SUBSET PAIRS) \ {{}}] :
        fl.kinds # {} /\ Cardinality(fl.kinds) <= n}

\* a call of `kind` about `pair` raises
Fails(f, kind, pair) == kind \in f.kinds /\ pair \in f.pairs

\* a call of `kind` that names no pair raises
FailsAny(f, kind) == kind \in f.kinds /\ f.pairs # {}

----------------------------------------------------------------------------
\* The exchange capability

OpenOrders(w) == {o \in w.orders : o.status = "open"}

\* exchange.fetch_open_orders(symbol), as the list the call returns
FetchOpenOrders(w, symbol) == {o \in OpenOrders(w) : o.symbol = symbol}

OrderById(w, id) == CHOOSE o \in w.orders : o.id = id

\* whether exchange.cancel_order(id, symbol) is accepted
CancelAccepted(w, id, symbol, f) ==
    /\ \E o \in w.orders : o.id = id /\ o.status = "open"
    /\ ~Fails(f, "cancel_order", norm_pair_from_symbol(symbol))

\* exchange.cancel_order(id, symbol): the order leaves the book, or the call raises
CancelOrder(w, id, symbol, f) ==
    LET ok == CancelAccepted(w, id, symbol, f)
        call == [op |-> "cancel_order", id |-> id, symbol |-> symbol, ok |-> ok]
    IN  [w EXCEPT
            !.orders = IF ok
                       THEN {IF o.id = id THEN [o EXCEPT !.status = "canceled"] ELSE o
                             : o \in w.orders}
                       ELSE w.orders,
            !.calls = Append(w.calls, call)]

\* exchange.create_order(symbol, type, side, qty, price, params) of a resting order
CreateOrder(w, symbol, type, side, qty, price, stopPrice, reduceOnly, closePosition, ok) ==
    LET o == [id |-> w.nextId, symbol |-> symbol, type |-> type, side |-> side,
              qty |-> qty, price |-> price, stopPrice |-> stopPrice,
              reduceOnly |-> reduceOnly, closePosition |-> closePosition,
              status |-> "open", timestamp |-> w.now]
        call == [op |-> "create_order", id |-> IF ok THEN w.nextId ELSE None,
                 symbol |-> symbol, type |-> type, side |-> side, qty |-> qty,
                 price |-> price, stopPrice |-> stopPrice,
                 reduceOnly |-> reduceOnly, closePosition |-> closePosition, ok |-> ok]
    IN  [w EXCEPT
            !.orders = IF ok THEN w.orders \cup {o} ELSE w.orders,
            !.nextId = IF ok THEN w.nextId + 1 ELSE w.nextId,
            !.calls = Append(w.calls, call)]

\* positions.get_open_position_pairs: fetch_positions errors are swallowed
get_open_position_pairs(w, f) ==
    IF FailsAny(f, "fetch_positions")
    THEN {}
    ELSE {p \in PAIRS : w.positions[p].qty > 0}

----------------------------------------------------------------------------
\* The local store

FileOf(w, pair) == CHOOSE fp \in w.files : fp.pair = pair

HasFile(w, pair) == \E fp \in w.files : fp.pair = pair

\* an unlink that leaves the file where it is
UnlinkNothing(w, pair) == w

\* fp.unlink() of LIMIT_ORDER_DIR / f"{pair}.json"
Unlink(w, pair) == [w EXCEPT !.files = {fp \in w.files : fp.pair # pair}]

\* env_utils.save_text(f"{pair}.json", ...): write_text replaces the file of that name
save_text(w, data) ==
    [w EXCEPT !.files = {fp \in w.files : fp.pair # data.pair} \cup {data}]

----------------------------------------------------------------------------
\* Iteration: the smallest order id of a non-empty set of orders

MinId(os) == CHOOSE i \in {o.id : o \in os} : \A o \in os : i <= o.id

RECURSIVE CancelEach(_, _, _, _)
\* for o in orders: try cancel_order(o.id, symbol), a failure is logged
CancelEach(w, os, symbol, f) ==
    IF os = {}
    THEN w
    ELSE LET i == MinId(os)
         IN  CancelEach(CancelOrder(w, i, symbol, f), {o \in os : o.id # i}, symbol, f)

\* cancel_all_orders_for_pair(exchange, symbol, pair)
cancel_all_orders_for_pair(w, symbol, pair, f) ==
    LET os == IF Fails(f, "fetch_open_orders", pair)
              THEN {}
              ELSE FetchOpenOrders(w, symbol)
    IN  Unlink(CancelEach(w, os, symbol, f), pair)

----------------------------------------------------------------------------
\* Protective orders

\* the outcome of the STOP_MARKET create_order of _place_sl_tp
SlOutcome(f, pair) ==
    IF Fails(f, "create_sl_error", pair) THEN "error"
    ELSE IF Fails(f, "create_sl_maxstop", pair) THEN "maxstop"
    ELSE "ok"

\* the outcome of a take-profit create_order of _place_sl_tp
TpOutcome(f, pair) ==
    IF Fails(f, "create_tp_error", pair) THEN "error"
    ELSE IF Fails(f, "create_tp_maxstop", pair) THEN "maxstop"
    ELSE "ok"

\* the take-profit create_order calls of _place_sl_tp, in the order issued
TpLegs(symbol, exit_side, qty, tp1, tp2, tp3) ==
    IF qty = None
    THEN <<[type |-> "TAKE_PROFIT_MARKET", qty |-> None, price |-> None,
            stopPrice |-> tp1, reduceOnly |-> FALSE, closePosition |-> TRUE]>>
    ELSE IF tp2 = None /\ tp3 = None
    THEN <<[type |-> "LIMIT", qty |-> qty, price |-> tp1,
            stopPrice |-> None, reduceOnly |-> TRUE, closePosition |-> FALSE]>>
    ELSE LET q1 == (qty * 3) \div 10
             q2 == (qty * 5) \div 10
             q3 == qty - q1 - q2
         IN  <<[type |-> "LIMIT", qty |-> q1, price |-> tp1,
                stopPrice |-> None, reduceOnly |-> TRUE, closePosition |-> FALSE]>>
             \o (IF tp2 # None
                 THEN <<[type |-> "LIMIT", qty |-> q2, price |-> tp2,
                         stopPrice |-> None, reduceOnly |-> TRUE, closePosition |-> FALSE]>>
                 ELSE <<>>)
             \o (IF tp3 # None
                 THEN <<[type |-> "TAKE_PROFIT_MARKET", qty |-> q3, price |-> None,
                         stopPrice |-> tp3, reduceOnly |-> TRUE, closePosition |-> FALSE]>>
                 ELSE <<>>)

\* the exchange refuses a limit order without a price and a trigger order without
\* a trigger price (an error that is no "max stop order" rejection)
LegOutcome(l, out) ==
    IF (l.type = "LIMIT" /\ l.price = None) \/ (l.type # "LIMIT" /\ l.stopPrice = None)
    THEN "error"
    ELSE out

RECURSIVE CreateLegs(_, _, _, _, _)
\* the take-profit creates in turn; the first rejected one ends the try block
CreateLegs(w, symbol, exit_side, legs, out) ==
    IF legs = <<>>
    THEN w
    ELSE LET l == Head(legs)
             res == LegOutcome(l, out)
             w1 == CreateOrder(w, symbol, l.type, exit_side, l.qty, l.price,
                               l.stopPrice, l.reduceOnly, l.closePosition, res = "ok")
         IN  IF res = "ok"
             THEN CreateLegs(w1, symbol, exit_side, Tail(legs), out)
             ELSE [w1 EXCEPT !.raised = (res = "error")]

\* _place_sl_tp, lines 117-129: cancel the close-position / reduce-only orders
CancelProtective(w, symbol, f) ==
    LET pair == norm_pair_from_symbol(symbol)
        os == IF Fails(f, "fetch_open_orders", pair)
              THEN {}
              ELSE FetchOpenOrders(w, symbol)
    IN  CancelEach(w, {o \in os : o.closePosition \/ o.reduceOnly}, symbol, f)

\* _place_sl_tp, lines 131-194: the stop-loss, then the take-profit legs.
\* A "max stop order" rejection is logged and swallowed, another one is raised.
PlaceProtective(w, symbol, side, qty, sl, tp1, tp2, tp3, f) ==
    LET pair == norm_pair_from_symbol(symbol)
        exit_side == ExitSide(side)
        slOut == SlOutcome(f, pair)
        w1 == CreateOrder(w, symbol, "STOP_MARKET", exit_side, None, None, sl,
                          FALSE, TRUE, slOut = "ok")
    IN  IF slOut = "ok"
        THEN CreateLegs(w1, symbol, exit_side,
                        TpLegs(symbol, exit_side, qty, tp1, tp2, tp3),
                        TpOutcome(f, pair))
        ELSE [w1 EXCEPT !.raised = (slOut = "error")]

\* _place_sl_tp(exchange, symbol, side, qty, sl, tp1, tp2, tp3)
place_sl_tp(w, symbol, side, qty, sl, tp1, tp2, tp3, f) ==
    PlaceProtective(CancelProtective(w, symbol, f), symbol, side, qty, sl, tp1, tp2, tp3, f)

----------------------------------------------------------------------------
\* Sweeps over LIMIT_ORDER_DIR.  glob() lists the files present when the sweep
\* starts, in the order of their names.

Truthy(x) == x # None /\ x # 0

\* the orders in which glob("*.json") may list the files
GlobOrders == {<<"BTCUSDT">>}

\* exchange.fetch_order(order_id, symbol)["status"], "error" when the call raises
FetchOrderStatus(w, order_id, symbol, f) ==
    IF Fails(f, "fetch_order", norm_pair_from_symbol(symbol))
       \/ ~\E o \in w.orders : o.id = order_id
    THEN "error"
    ELSE OrderById(w, order_id).status

\* add_sl_tp_from_json, lines 658-686: one file of the loop
AddSlTpFile(w, pair, f) ==
    IF ~HasFile(w, pair) THEN w
    ELSE LET data == FileOf(w, pair)
             ccxt_sym == to_ccxt_symbol(pair)
             status == FetchOrderStatus(w, data.order_id, ccxt_sym, f)
         IN  IF ~(Truthy(data.order_id) /\ Truthy(data.qty) /\ Truthy(data.sl)
                  /\ Truthy(data.tp1)) THEN w
             ELSE IF status # "closed" THEN w
             ELSE LET w1 == place_sl_tp(w, ccxt_sym, data.side, data.qty, data.sl,
                                        data.tp1, data.tp2, data.tp3, f)
                  IN  IF w1.raised THEN w1 ELSE Unlink(w1, pair)

RECURSIVE AddSlTpLoop(_, _, _)
\* the loop of add_sl_tp_from_json; an exception of _place_sl_tp leaves it
AddSlTpLoop(w, todo, f) ==
    IF todo = <<>> \/ w.raised
    THEN w
    ELSE AddSlTpLoop(AddSlTpFile(w, Head(todo), f), Tail(todo), f)

\* add_sl_tp_from_json(exchange), the files listed in the order `ord`
add_sl_tp_from_json(w, ord, f) == AddSlTpLoop(w, ord, f)

\* the loop body without the test for a closed order: every expired entry is cancelled
ExpireFileCancelAlways(w, pair, f) ==
    IF ~HasFile(w, pair) THEN w
    ELSE LET data == FileOf(w, pair)
         IN  IF w.now - data.ts < data.expiry THEN w
             ELSE Unlink(CancelOrder(w, data.order_id, to_ccxt_symbol(pair), f), pair)

\* the loop body without the test of the age: every complete record is dealt with
ExpireFileAnyAge(w, pair, f) ==
    IF ~HasFile(w, pair) THEN w
    ELSE LET data == FileOf(w, pair)
             symbol == to_ccxt_symbol(pair)
             status == FetchOrderStatus(w, data.order_id, symbol, f)
         IN  IF ~(Truthy(data.expiry) /\ Truthy(data.ts) /\ Truthy(data.order_id)) THEN w
             ELSE IF status = "closed" THEN Unlink(w, pair)
             ELSE Unlink(CancelOrder(w, data.order_id, symbol, f), pair)

\* cancel_expired_limit_orders, lines 582-623: one file of the loop
ExpireFile(w, pair, f) ==
    IF ~HasFile(w, pair) THEN w
    ELSE LET data == FileOf(w, pair)
             symbol == to_ccxt_symbol(pair)
             status == FetchOrderStatus(w, data.order_id, symbol, f)
         IN  IF ~(Truthy(data.expiry) /\ Truthy(data.ts) /\ Truthy(data.order_id)) THEN w
             ELSE IF w.now - data.ts < data.expiry THEN w
             ELSE IF status = "closed" THEN Unlink(w, pair)
             ELSE Unlink(CancelOrder(w, data.order_id, symbol, f), pair)

RECURSIVE ExpireLoop(_, _, _)
\* the loop of cancel_expired_limit_orders: every exception is caught per file
ExpireLoop(w, todo, f) ==
    IF todo = <<>>
    THEN w
    ELSE ExpireLoop(ExpireFile(w, Head(todo), f), Tail(todo), f)

\* cancel_expired_limit_orders(exchange), the files listed in the order `ord`
cancel_expired_limit_orders(w, ord, f) == ExpireLoop(w, ord, f)

----------------------------------------------------------------------------
\* Orphan cleanup

RECURSIVE StaleLimitsLoop(_, _, _, _)
\* cancel_unpositioned_limits, lines 493-531: the loop over the fetched orders
StaleLimitsLoop(w, os, pos_pairs, f) ==
    IF os = {}
    THEN w
    ELSE LET i == MinId(os)
             o == CHOOSE x \in os : x.id = i
             rest == {x \in os : x.id # i}
             pair == norm_pair_from_symbol(o.symbol)
             age_sec == w.now - o.timestamp
         IN  IF o.reduceOnly \/ Lower(o.type) # "limit" THEN StaleLimitsLoop(w, rest, pos_pairs, f)
             ELSE IF pair \in pos_pairs THEN StaleLimitsLoop(w, rest, pos_pairs, f)
             ELSE IF age_sec < MAX_AGE_SEC THEN StaleLimitsLoop(w, rest, pos_pairs, f)
             ELSE IF ~CancelAccepted(w, i, o.symbol, f)
                  THEN StaleLimitsLoop(CancelOrder(w, i, o.symbol, f), rest, pos_pairs, f)
             ELSE StaleLimitsLoop(Unlink(CancelOrder(w, i, o.symbol, f), pair),
                                  rest, pos_pairs, f)

\* cancel_unpositioned_limits(exchange): a failed fetch_open_orders ends the pass
cancel_unpositioned_limits(w, f) ==
    IF FailsAny(f, "fetch_open_orders")
    THEN w
    ELSE StaleLimitsLoop(w, OpenOrders(w), get_open_position_pairs(w, f), f)

\* cancel_unpositioned_stops, lines 549-559: a protective order, by its flags
IsProtective(o) ==
    /\ o.reduceOnly \/ o.closePosition
    /\ \/ Truthy(o.stopPrice)
       \/ Lower(o.type) \in {"take_profit_market", "stop_market"}

RECURSIVE OrphanStopsLoop(_, _, _, _)
\* cancel_unpositioned_stops, lines 546-574: the loop over the fetched orders
OrphanStopsLoop(w, os, pos_pairs, f) ==
    IF os = {}
    THEN w
    ELSE LET i == MinId(os)
             o == CHOOSE x \in os : x.id = i
             rest == {x \in os : x.id # i}
             pair == norm_pair_from_symbol(o.symbol)
         IN  IF ~IsProtective(o) THEN OrphanStopsLoop(w, rest, pos_pairs, f)
             ELSE IF pair \in pos_pairs THEN OrphanStopsLoop(w, rest, pos_pairs, f)
             ELSE OrphanStopsLoop(CancelOrder(w, i, o.symbol, f), rest, pos_pairs, f)

\* cancel_unpositioned_stops(exchange): a failed fetch_open_orders ends the pass
cancel_unpositioned_stops(w, f) ==
    IF FailsAny(f, "fetch_open_orders")
    THEN w
    ELSE OrphanStopsLoop(w, OpenOrders(w), get_open_position_pairs(w, f), f)

\* remove_unmapped_limit_files, lines 636-642: pairs with an open limit order;
\* a failed fetch_open_orders leaves the list empty
OpenLimitPairs(w, f) ==
    IF FailsAny(f, "fetch_open_orders")
    THEN {}
    ELSE {norm_pair_from_symbol(o.symbol) : o \in {x \in OpenOrders(w) : Lower(x.type) = "limit"}}

\* remove_unmapped_limit_files(exchange)
remove_unmapped_limit_files(w, f) ==
    LET open_pairs == OpenLimitPairs(w, f)
        pos_pairs == get_open_position_pairs(w, f)
    IN  [w EXCEPT !.files = {fp \in w.files : fp.pair \in open_pairs \/ fp.pair \in pos_pairs}]

----------------------------------------------------------------------------
\* Positions as the cycle sees them

\* positions_snapshot, lines 119-132: the price of a protective order
ExtractPrice(o) == IF Truthy(o.stopPrice) THEN o.stopPrice
                   ELSE IF Truthy(o.price) THEN o.price ELSE None

SetMin(S) == CHOOSE x \in S : \A y \in S : x <= y

SetMax(S) == CHOOSE x \in S : \A y \in S : x >= y

RECURSIVE SortedSeq(_, _)
\* sorted(prices) of a bag of prices, ascending or (reverse) descending
SortedSeq(b, reverse) ==
    IF b = EmptyBag
    THEN <<>>
    ELSE LET x == IF reverse THEN SetMax(BagToSet(b)) ELSE SetMin(BagToSet(b))
         IN  <<x>> \o SortedSeq(b (-) SetToBag({x}), reverse)

RECURSIVE PriceBag(_)
\* the prices of a set of orders, with their multiplicity
PriceBag(os) ==
    IF os = {}
    THEN EmptyBag
    ELSE LET o == CHOOSE x \in os : TRUE
         IN  PriceBag(os \ {o}) (+) SetToBag({ExtractPrice(o)})

\* positions_snapshot, lines 69-191: the view of one open position
PositionView(w, pair, f) ==
    LET p == w.positions[pair]
        sym == to_ccxt_symbol(pair)
        os == IF Fails(f, "fetch_open_orders", pair) THEN {} ELSE FetchOpenOrders(w, sym)
        stop_orders == {o \in os : (o.reduceOnly \/ o.closePosition) /\ ExtractPrice(o) # None}
        sl_orders == {o \in stop_orders : IF p.side = "buy" THEN ExtractPrice(o) < p.entry
                                          ELSE ExtractPrice(o) > p.entry}
        tp_orders == {o \in stop_orders : IF p.side = "buy" THEN ExtractPrice(o) > p.entry
                                          ELSE ExtractPrice(o) < p.entry}
        sl_prices == {ExtractPrice(o) : o \in sl_orders}
        tp_sorted == SortedSeq(PriceBag(tp_orders), p.side # "buy")
    IN  [pair |-> pair, side |-> p.side, entry |-> p.entry, qty |-> p.qty,
         sl |-> IF sl_prices = {} THEN None
                ELSE IF p.side = "buy" THEN SetMin(sl_prices) ELSE SetMax(sl_prices),
         tp1 |-> IF Len(tp_sorted) > 0 THEN tp_sorted[1] ELSE None,
         tp2 |-> IF Len(tp_sorted) > 1 THEN tp_sorted[2] ELSE None,
         tp3 |-> IF Len(tp_sorted) > 2 THEN tp_sorted[3] ELSE None]

\* positions_snapshot(exchange): a failed fetch_positions gives no position
positions_snapshot(w, f) ==
    IF FailsAny(f, "fetch_positions")
    THEN {}
    ELSE {PositionView(w, pair, f) : pair \in {p \in PAIRS : w.positions[p].qty > 0}}

----------------------------------------------------------------------------
\* The break-even move (move_sl_to_entry)

\* the prices fetch_ticker may report
Prices == {90, 100, 110}

Abs(x) == IF x < 0 THEN 0 - x ELSE x

\* move_sl_to_entry, lines 724-735: the move is due, abs(price - entry) >= risk
BreakEvenDue(pos, price) == ~(Abs(price - pos.entry) < Abs(pos.entry - pos.sl))

\* move_sl_to_entry, lines 743-754: the open orders it takes for stop orders
BreakEvenStops(os) ==
    {o \in os : o.reduceOnly /\ (Truthy(o.stopPrice) \/ Truthy(o.price))}

\* a loop body that goes on when it finds no stop order to cancel
BreakEvenOneWithoutStops(w, pos, price, f) ==
    LET symbol == to_ccxt_symbol(pos.pair)
        stop_orders == BreakEvenStops(FetchOpenOrders(w, symbol))
        w1 == CancelEach(w, stop_orders, symbol, f)
    IN  IF ~(Truthy(pos.entry) /\ Truthy(pos.sl)) THEN w
        ELSE IF Abs(pos.entry - pos.sl) <= 0 THEN w
        ELSE IF Fails(f, "fetch_ticker", pos.pair) THEN w
        ELSE IF ~BreakEvenDue(pos, price) THEN w
        ELSE IF Fails(f, "fetch_open_orders", pos.pair) THEN w
        ELSE CreateOrder(w1, symbol, "STOP_MARKET", ExitSide(pos.side), None, None,
                         pos.entry, FALSE, TRUE, SlOutcome(f, pos.pair) = "ok")

\* move_sl_to_entry, lines 718-776: one position of the snapshot
BreakEvenOne(w, pos, price, f) ==
    LET symbol == to_ccxt_symbol(pos.pair)
        stop_orders == BreakEvenStops(FetchOpenOrders(w, symbol))
        w1 == CancelEach(w, stop_orders, symbol, f)
    IN  IF ~(Truthy(pos.entry) /\ Truthy(pos.sl)) THEN w
        ELSE IF Abs(pos.entry - pos.sl) <= 0 THEN w
        ELSE IF Fails(f, "fetch_ticker", pos.pair) THEN w
        ELSE IF ~BreakEvenDue(pos, price) THEN w
        ELSE IF Fails(f, "fetch_open_orders", pos.pair) THEN w
        ELSE IF stop_orders = {} THEN w
        ELSE CreateOrder(w1, symbol, "STOP_MARKET", ExitSide(pos.side), None, None,
                         pos.entry, FALSE, TRUE, SlOutcome(f, pos.pair) = "ok")

RECURSIVE BreakEvenLoop(_, _, _, _)
\* move_sl_to_entry, line 717: for pos in positions
BreakEvenLoop(w, snapshot, price, f) ==
    IF snapshot = {}
    THEN w
    ELSE LET pos == CHOOSE x \in snapshot : TRUE
         IN  BreakEvenLoop(BreakEvenOne(w, pos, price, f), snapshot \ {pos}, price, f)

\* move_sl_to_entry(exchange), the ticker reporting `price`
move_sl_to_entry(w, price, f) ==
    BreakEvenLoop(w, positions_snapshot(w, f), price, f)

----------------------------------------------------------------------------
\* Proposals of the oracle, as parse_mini_actions returns them, and the sizer

Proposals ==
    {[pair |-> "BTCUSDT", entry |-> 100, sl |-> 90, tp1 |-> None, tp2 |-> None, tp3 |-> None],
     [pair |-> "BTCUSDT", entry |-> 100, sl |-> 110, tp1 |-> 80, tp2 |-> None, tp3 |-> None]}

\* the quantities calc_qty returns for them
Quantities == {10}

\* the stops a move_sl instruction of the oracle asks for
NewStops == {95}

\* a side read from entry and stop-loss alone
infer_side_by_stop(entry, sl, tp) ==
    IF entry > sl THEN "buy" ELSE IF entry < sl THEN "sell" ELSE "none"

\* trading_utils.infer_side(entry, sl, tp)
infer_side(entry, sl, tp) ==
    IF tp # None
    THEN IF tp > entry /\ entry > sl THEN "buy"
         ELSE IF tp < entry /\ entry < sl THEN "sell"
         ELSE "none"
    ELSE IF entry > sl THEN "buy"
         ELSE IF entry < sl THEN "sell"
         ELSE "none"

\* trading_utils.enrich_tp_qty, lines 216-256, for one action and its sized quantity
EnrichOne(a, qty) ==
    LET dist == a.entry - a.sl
        tp1_def == a.entry + dist
        tp2_def == a.entry + (3 * dist) \div 2
        tp1 == IF a.tp1 # None /\ a.tp1 # a.entry THEN a.tp1 ELSE tp1_def
        tp2 == IF a.tp2 # None /\ a.tp2 # a.entry THEN a.tp2 ELSE tp2_def
        tp3 == IF a.tp3 # None /\ a.tp3 # a.entry THEN a.tp3 ELSE tp2_def
    IN  [pair |-> a.pair, entry |-> a.entry, sl |-> a.sl, tp1 |-> tp1, tp2 |-> tp2,
         tp3 |-> tp3, qty |-> qty, side |-> infer_side(a.entry, a.sl, tp1)]

\* the coins enrich_tp_qty emits: positive quantity and an inferred side
EnrichedCoins ==
    {c \in {EnrichOne(a, q) : a \in Proposals, q \in Quantities} :
        c.qty > 0 /\ c.side \in {"buy", "sell"}}

----------------------------------------------------------------------------
\* trading_utils.parse_mini_actions, lines 13-111.  Prices are integers, a risk
\* fraction r is the integer r * RiskScale, a percentage is an integer.

MaxItems == 2       \* coins in one oracle document
MaxPartials == 1    \* close, move_sl and close_partial items in one oracle document

RiskScale == 100    \* a risk fraction of 1.0

Bad == 0 - 2        \* a value float() rejects (a word, a list)

\* (item.get("pair") or "").upper().replace("/", "")
PairNorm(pair) ==
    CASE pair = "btc/usdt" -> "BTCUSDT"
      [] pair = "eth/usdt" -> "ETHUSDT"
      [] OTHER -> pair

\* the coin items an oracle document may hold
CoinItems ==
    {[pair |-> "BTCUSDT", entry |-> 100, sl |-> 90, tp1 |-> 110, tp2 |-> 120, tp3 |-> None, risk |-> 10],
     [pair |-> "btc/usdt", entry |-> 100, sl |-> 110, tp1 |-> 90, tp2 |-> None, tp3 |-> None, risk |-> None],
     [pair |-> "BTCUSDT", entry |-> 100, sl |-> 100, tp1 |-> 110, tp2 |-> None, tp3 |-> None, risk |-> 10],
     [pair |-> "BTCUSDT", entry |-> 100, sl |-> 90, tp1 |-> 95, tp2 |-> None, tp3 |-> None, risk |-> 10],
     [pair |-> "BTCUSDT", entry |-> 100, sl |-> 110, tp1 |-> 90, tp2 |-> 100, tp3 |-> None, risk |-> 10],
     [pair |-> "BTCUSDT", entry |-> 100, sl |-> 90, tp1 |-> 110, tp2 |-> None, tp3 |-> None, risk |-> 100],
     [pair |-> "BTCUSDT", entry |-> 100, sl |-> 90, tp1 |-> 110, tp2 |-> None, tp3 |-> None, risk |-> 0],
     [pair |-> "BTCUSDT", entry |-> Bad, sl |-> 90, tp1 |-> 110, tp2 |-> None, tp3 |-> None, risk |-> 10],
     [pair |-> "", entry |-> 100, sl |-> 90, tp1 |-> 110, tp2 |-> None, tp3 |-> None, risk |-> 10]}

ClosePairs == {[pair |-> "ETHUSDT"]}

MoveSlItems == {[pair |-> "BTCUSDT", sl |-> 95]}

PartialItems ==
    {[pair |-> "BTCUSDT", pct |-> 25], [pair |-> "BTCUSDT", pct |-> 100],
     [pair |-> "BTCUSDT", pct |-> 0], [pair |-> "BTCUSDT", pct |-> 101]}

\* the forms of the close_all member: absent, a boolean, a list of {pair}
CloseAllForms ==
    {[t |-> "absent", b |-> FALSE, items |-> <<>>],
     [t |-> "bool", b |-> TRUE, items |-> <<>>],
     [t |-> "bool", b |-> FALSE, items |-> <<>>],
     [t |-> "list", b |-> FALSE, items |-> <<[pair |-> "ETHUSDT"]>>]}

SeqsUpTo(S, n) == UNION {[1..k -> S] : k \in 0..n}

\* the texts of the oracle: empty, without a JSON object, or a JSON object
OracleDocs ==
    {[kind |-> k, coins |-> <<>>, close |-> <<>>, move_sl |-> <<>>, close_partial |-> <<>>,
      close_all |-> [t |-> "absent", b |-> FALSE, items |-> <<>>]] : k \in {"empty", "garbage"}}
    \cup
    [kind : {"object"}, coins : SeqsUpTo(CoinItems, MaxItems),
     close : SeqsUpTo(ClosePairs, MaxPartials), move_sl : SeqsUpTo(MoveSlItems, MaxPartials),
     close_partial : SeqsUpTo(PartialItems, MaxPartials), close_all : CloseAllForms]

\* lines 59-74: a take-profit that is not on the profitable side of entry
TpOffside(side, entry, tp) ==
    tp # None /\ ((side = "buy" /\ tp <= entry) \/ (side = "sell" /\ tp >= entry))

\* lines 31-87: one item of "coins", as the list of the coins it adds
ParseCoin(item) ==
    LET pair == PairNorm(item.pair)
        side == IF item.entry > item.sl THEN "buy" ELSE "sell"
    IN  IF pair = "" THEN <<>>
        ELSE IF Bad \in {item.entry, item.sl, item.tp1, item.tp2, item.tp3, item.risk} THEN <<>>
        ELSE IF None \in {item.entry, item.sl} \/ item.entry = item.sl THEN <<>>
        ELSE IF item.risk # None /\ ~(0 < item.risk /\ item.risk < RiskScale) THEN <<>>
        ELSE IF TpOffside(side, item.entry, item.tp1) THEN <<>>
        ELSE IF TpOffside(side, item.entry, item.tp2) THEN <<>>
        ELSE IF TpOffside(side, item.entry, item.tp3) THEN <<>>
        ELSE <<[pair |-> pair, entry |-> item.entry, sl |-> item.sl, tp1 |-> item.tp1,
                tp2 |-> item.tp2, tp3 |-> item.tp3, risk |-> item.risk]>>

\* lines 90-95: one item of "close_all"
ParseCloseAllItem(item) ==
    IF PairNorm(item.pair) # "" THEN <<[pair |-> PairNorm(item.pair)]>> ELSE <<>>

\* lines 98-109: one item of "close_partial"
ParsePartial(item) ==
    IF item.pct \in {Bad, None} THEN <<>>
    ELSE IF PairNorm(item.pair) = "" \/ ~(0 < item.pct /\ item.pct <= 100) THEN <<>>
    ELSE <<[pair |-> PairNorm(item.pair), pct |-> item.pct]>>

RECURSIVE ParseEach(_, _)
\* the loops of lines 30, 90 and 98: the items kept, in the order of the document
ParseEach(items, kind) ==
    IF items = <<>> THEN <<>>
    ELSE (CASE kind = "coins" -> ParseCoin(Head(items))
            [] kind = "close_all" -> ParseCloseAllItem(Head(items))
            [] kind = "close_partial" -> ParsePartial(Head(items)))
         \o ParseEach(Tail(items), kind)

\* what parse_mini_actions returns (line 111), or the exception it leaves with:
\* `for item in close_all_in` (line 90) raises TypeError on a boolean
parse_mini_actions(doc) ==
    IF doc.kind # "object"
    THEN [raised |-> FALSE,
          acts |-> [coins |-> <<>>, close_all |-> <<>>, close_partial |-> <<>>]]
    ELSE IF doc.close_all.t = "bool"
    THEN [raised |-> TRUE,
          acts |-> [coins |-> <<>>, close_all |-> <<>>, close_partial |-> <<>>]]
    ELSE [raised |-> FALSE,
          acts |-> [coins |-> ParseEach(doc.coins, "coins"),
                    close_all |-> ParseEach(doc.close_all.items, "close_all"),
                    close_partial |-> ParseEach(doc.close_partial, "close_partial")]]

\* run, lines 295-308: acts.get(key, [])
ActsGet(acts, key) == IF key \in DOMAIN acts THEN acts[key] ELSE <<>>

----------------------------------------------------------------------------
\* run(run_live=True)

\* the PendingEntry record run() writes, lines 421-439
PendingEntry(c, order_id, ts) ==
    [pair |-> c.pair, order_id |-> order_id, side |-> c.side, limit |-> c.entry,
     qty |-> c.qty, sl |-> c.sl, tp1 |-> c.tp1, tp2 |-> c.tp2, tp3 |-> c.tp3,
     expiry |-> LIMIT_ORDER_EXPIRY_MIN * 60, ts |-> ts]

\* run, lines 398-456: one coin of the entry loop
SubmitEntry(w, c, pos_pairs_live, f) ==
    IF c.side \notin {"buy", "sell"} \/ c.pair \in pos_pairs_live \/ c.tp1 = None
    THEN w
    ELSE LET ccxt_sym == to_ccxt_symbol(c.pair)
             w1 == cancel_all_orders_for_pair(w, ccxt_sym, c.pair, f)
             ok == ~Fails(f, "create_entry", c.pair)
             w2 == CreateOrder(w1, ccxt_sym, "limit", c.side, c.qty, c.entry, None,
                               FALSE, FALSE, ok)
         IN  IF ok
             THEN [save_text(w2, PendingEntry(c, w1.nextId, w.now))
                       EXCEPT !.placed = Append(@, c.pair)]
             ELSE w2

RECURSIVE EntryLoop(_, _, _, _)
\* run, lines 398-456: for c in coins
EntryLoop(w, coins, pos_pairs_live, f) ==
    IF coins = <<>>
    THEN w
    ELSE EntryLoop(SubmitEntry(w, Head(coins), pos_pairs_live, f), Tail(coins),
                   pos_pairs_live, f)

\* run, lines 346-362: one move_sl instruction; an exception of _place_sl_tp is logged
MoveSlOne(w, pos_map, m, f) ==
    IF ~\E pos \in pos_map : pos.pair = m.pair
    THEN w
    ELSE LET pos == CHOOSE x \in pos_map : x.pair = m.pair
             w1 == place_sl_tp(w, to_ccxt_symbol(m.pair), pos.side, pos.qty, m.sl,
                               pos.tp1, pos.tp2, pos.tp3, f)
         IN  IF w1.raised
             THEN [w1 EXCEPT !.raised = FALSE]
             ELSE [w1 EXCEPT !.moved_sl = Append(@, m)]

RECURSIVE MoveSlLoop(_, _, _, _)
\* run, lines 346-362: for item in acts.get("move_sl", [])
MoveSlLoop(w, pos_map, ms, f) ==
    IF ms = <<>>
    THEN w
    ELSE MoveSlLoop(MoveSlOne(w, pos_map, Head(ms), f), pos_map, Tail(ms), f)

\* run, lines 206-209: the three cleanup passes
RunCleanup(w, f) ==
    cancel_unpositioned_stops(remove_unmapped_limit_files(cancel_unpositioned_limits(w, f), f), f)

\* a gate that counts no position
CurrentPosNone(w, f) == 0

\* run, lines 221-226: current_pos as the gate reads it
CurrentPos(w, f) == Cardinality(get_open_position_pairs(w, f))

\* run, lines 346-456: the instructions of the oracle carried out
RunActs(w, cs, ms, f) ==
    LET pos_map == positions_snapshot(w, f)
        w1 == MoveSlLoop(w, pos_map, ms, f)
        pos_pairs_live == IF cs # <<>> THEN get_open_position_pairs(w1, f) ELSE {}
    IN  EntryLoop(w1, cs, pos_pairs_live, f)

\* what run() did and returned: the steps reached and the orders result record.
\* `reason` names how the cycle ended; after an exception of build_payload or
\* send_openai, which run() does not catch, no orders record has been written.
CycleRecord(built, called, reason, coins, placed, moved) ==
    [payload_built |-> built, oracle_called |-> called, reason |-> reason,
     coins |-> coins, placed |-> placed, closed |-> <<>>, moved_sl |-> moved,
     closed_partial |-> <<>>,
     raised |-> reason \in {"payload_error", "oracle_error"},
     written |-> reason \notin {"none", "payload_error", "oracle_error"}]

NoCycle == CycleRecord(FALSE, FALSE, "none", <<>>, <<>>, <<>>)

\* what build_payload does in a cycle: it returns coins, it returns no coin (every
\* coin_payload failed), or it raises (payload_builder line 237: a thread pool of
\* min(8, len(symbols)) = 0 workers when no symbol is eligible, or a failing fetch)
Payloads == {"coins", "no_coins", "raise"}

\* what send_openai does in a cycle: it returns a response or it raises
OracleOutcomes == {"ok", "raise"}

\* instructions carried out whatever run_live says
ActsAlways(w, run_live, cs, ms, f) == RunActs(w, cs, ms, f)

\* run, lines 319 and 395: `if run_live:` and `if run_live and coins:` guard every
\* order the cycle places
ActsIfLive(w, run_live, cs, ms, f) == IF run_live THEN RunActs(w, cs, ms, f) ELSE w

\* run(run_live, ...), lines 198-470: `f0` hits the exchange calls up to the gate,
\* `f` those after it; `cs` and `ms` are the coins and the move_sl list that the
\* oracle and the sizer return
run_cycle(w, run_live, f0, f, payload, oracle, cs, ms) ==
    LET w0 == IF run_live THEN RunCleanup(w, f0) ELSE w
    IN  IF run_live /\ CurrentPos(w0, f0) >= MAX_OPEN_POSITIONS
        THEN [w0 EXCEPT !.cycle = CycleRecord(FALSE, FALSE, "max_positions", <<>>, <<>>, <<>>)]
        ELSE IF payload = "raise"
        THEN [w0 EXCEPT !.cycle = CycleRecord(FALSE, FALSE, "payload_error", <<>>, <<>>, <<>>)]
        ELSE IF payload = "no_coins"
        THEN [w0 EXCEPT !.cycle = CycleRecord(TRUE, FALSE, "no_coins", <<>>, <<>>, <<>>)]
        ELSE IF oracle = "raise"
        THEN [w0 EXCEPT !.cycle = CycleRecord(TRUE, TRUE, "oracle_error", <<>>, <<>>, <<>>)]
        ELSE LET w1 == ActsIfLive(w0, run_live, cs, ms, f)
             IN  [w1 EXCEPT !.cycle = CycleRecord(TRUE, TRUE, "", cs, w1.placed, w1.moved_sl)]

\* run(run_live=True) of a cycle in which build_payload and send_openai return
run(w, f0, f, has_coins, cs, ms) ==
    run_cycle(w, TRUE, f0, f, IF has_coins THEN "coins" ELSE "no_coins", "ok", cs, ms)

\* the oracle documents that ask to close everything: close_all as the boolean
\* of the schema, or as the list of {pair} the parser reads
CloseAllDocs ==
    {[kind |-> "object", coins |-> <<>>, close |-> <<>>, move_sl |-> <<>>,
      close_partial |-> <<>>, close_all |-> form] :
        form \in {[t |-> "bool", b |-> TRUE, items |-> <<>>],
                  [t |-> "list", b |-> FALSE, items |-> <<[pair |-> "btc/usdt"]>>]}}

RECURSIVE PairsInOrder(_)
\* `for pair in pos_map`: the pairs of the snapshot in the order of the dict
PairsInOrder(pos_map) ==
    IF pos_map = {}
    THEN <<>>
    ELSE LET pos == CHOOSE x \in pos_map : TRUE
         IN  <<[pair |-> pos.pair]>> \o PairsInOrder(pos_map \ {pos})

\* run, lines 305-312: close_acts, with every pair of pos_map when close_all is set
CloseActs(acts, pos_map) ==
    LET close_acts == ActsGet(acts, "close")
        existing == {close_acts[i].pair : i \in DOMAIN close_acts}
    IN  IF ActsGet(acts, "close_all") # <<>>
        THEN close_acts \o SelectSeq(PairsInOrder(pos_map), LAMBDA c : c.pair \notin existing)
        ELSE close_acts

\* the exchange executes an accepted MARKET order that closes the position
MarketClose(w, pair, ok) ==
    IF ok
    THEN [w EXCEPT !.orders = {IF o.id = w.nextId - 1 THEN [o EXCEPT !.status = "closed"]
                               ELSE o : o \in w.orders},
                   !.positions = [w.positions EXCEPT ![pair] =
                                     [side |-> "none", qty |-> 0, entry |-> 0]],
                   !.closed = Append(@, [pair |-> pair])]
    ELSE w

\* run, lines 322-344: one close instruction; a rejected close order is logged
CloseOne(w, pos_map, c, f) ==
    IF ~\E pos \in pos_map : pos.pair = c.pair
    THEN w
    ELSE LET pos == CHOOSE x \in pos_map : x.pair = c.pair
             ccxt_sym == to_ccxt_symbol(c.pair)
             ok == ~Fails(f, "create_close", c.pair)
             w1 == cancel_all_orders_for_pair(w, ccxt_sym, c.pair, f)
         IN  IF pos.side \notin {"buy", "sell"}
             THEN w
             ELSE MarketClose(CreateOrder(w1, ccxt_sym, "MARKET", ExitSide(pos.side),
                                          None, None, None, TRUE, TRUE, ok),
                              c.pair, ok)

RECURSIVE CloseLoop(_, _, _, _)
\* run, line 322: for c in close_acts
CloseLoop(w, pos_map, cs, f) ==
    IF cs = <<>>
    THEN w
    ELSE CloseLoop(CloseOne(w, pos_map, Head(cs), f), pos_map, Tail(cs), f)

\* run(run_live=True), lines 198-470, of a cycle whose payload has coins and whose
\* oracle answers with the document `doc`, which proposes no coin: the cleanup,
\* the gate, parse_mini_actions (its exception leaves run() at line 294), the
\* close loop, the orders record
run_close_all(w, f0, f, doc) ==
    LET w0 == RunCleanup(w, f0)
        parsed == parse_mini_actions(doc)
        pos_map == positions_snapshot(w0, f)
        w1 == CloseLoop(w0, pos_map, CloseActs(parsed.acts, pos_map), f)
    IN  IF CurrentPos(w0, f0) >= MAX_OPEN_POSITIONS
        THEN [w0 EXCEPT !.cycle = CycleRecord(FALSE, FALSE, "max_positions", <<>>, <<>>, <<>>)]
        ELSE IF parsed.raised
        THEN [w0 EXCEPT !.cycle = [CycleRecord(TRUE, TRUE, "parse_error", <<>>, <<>>, <<>>)
                                      EXCEPT !.raised = TRUE, !.written = FALSE]]
        ELSE [w1 EXCEPT !.cycle = [CycleRecord(TRUE, TRUE, "", <<>>, <<>>, <<>>)
                                      EXCEPT !.closed = w1.closed]]

----------------------------------------------------------------------------
\* State machine

Flat == [side |-> "none", qty |-> 0, entry |-> 0]

\* the jobs live_loop adds to the scheduler
Jobs == {"run_job", "limit_job", "expiry_job"}

NoData == [pair |-> "none"]

\* a job that is not running, after `n` runs
JobIdle(n) == [pc |-> "idle", data |-> NoData, runs |-> n]

\* no helper call in progress
NoTool == [op |-> "none"]

Init ==
    /\ orders = {}
    /\ positions = [p \in PAIRS |-> Flat]
    /\ files = {}
    /\ nextId = 1
    /\ now = TickSec
    /\ bias \in {"buy", "sell"}
    /\ jobs = [j \in Jobs |-> JobIdle(0)]
    /\ tool = NoTool

\* the world a handler starts from: the exchange, the store, no call issued yet
World ==
    [orders |-> orders, positions |-> positions, files |-> files, nextId |-> nextId,
     now |-> now, calls |-> <<>>, raised |-> FALSE, placed |-> <<>>, moved_sl |-> <<>>,
     closed |-> <<>>, cycle |-> NoCycle]

\* Order ids are opaque tokens.  The orders nobody can name any more (neither open
\* nor in a file) leave the model, and the ids of the others are renumbered in
\* their order of creation.
Kept(os, fs) ==
    {o \in os : o.status = "open" \/ \E fp \in fs : fp.order_id = o.id}

Rank(os, id) == Cardinality({o \in os : o.id <= id})

Renumbered(os, fs) ==
    LET k == Kept(os, fs)
    IN  {[o EXCEPT !.id = Rank(k, o.id)] : o \in k}

Relinked(os, fs) ==
    LET k == Kept(os, fs)
    IN  {IF \E o \in os : o.id = fp.order_id
         THEN [fp EXCEPT !.order_id = Rank(k, fp.order_id)]
         ELSE fp : fp \in fs}

\* the state a handler leaves
Commit(w) ==
    /\ Cardinality(Kept(w.orders, w.files)) <= MaxOrders
    /\ orders' = Renumbered(w.orders, w.files)
    /\ positions' = w.positions
    /\ files' = Relinked(w.orders, w.files)
    /\ nextId' = Cardinality(Kept(w.orders, w.files)) + 1
    /\ now' = now
    /\ bias' = bias
    /\ tool' = tool
    /\ jobs' = jobs

\* the faults of one run of each handler
SweepFaults ==
    Faults({"fetch_order", "fetch_open_orders", "cancel_order", "create_sl_maxstop",
            "create_sl_error", "create_tp_maxstop", "create_tp_error"}, 1)

ExpiryFaults == Faults({"fetch_order", "cancel_order"}, 2)

PassFaults == Faults({"fetch_open_orders", "fetch_positions", "cancel_order"}, 1)

ActFaults ==
    Faults({"fetch_open_orders", "fetch_positions", "cancel_order", "create_entry",
            "create_sl_maxstop", "create_sl_error", "create_tp_maxstop", "create_tp_error"}, 1)

\* limit_job of live_loop: add_sl_tp_from_json(ex)
AddSlTpSweep ==
    \E ord \in GlobOrders, f \in SweepFaults :
        Commit(add_sl_tp_from_json(World, ord, f))

\* expiry_job of live_loop: cancel_expired_limit_orders(ex)
ExpirySweep ==
    \E ord \in GlobOrders, f \in ExpiryFaults :
        Commit(cancel_expired_limit_orders(World, ord, f))

\* cancel_unpositioned_limits(ex) called on its own
StaleLimitsPass ==
    \E f \in PassFaults : Commit(cancel_unpositioned_limits(World, f))

\* remove_unmapped_limit_files(ex) called on its own
UnmappedFilesPass ==
    \E f \in PassFaults : Commit(remove_unmapped_limit_files(World, f))

\* cancel_unpositioned_stops(ex) called on its own
OrphanStopsPass ==
    \E f \in PassFaults : Commit(cancel_unpositioned_stops(World, f))

BreakEvenFaults ==
    Faults({"fetch_positions", "fetch_open_orders", "fetch_ticker", "cancel_order",
            "create_sl_error"}, 1)

\* move_sl_to_entry(ex) called on its own
BreakEvenPass ==
    \E price \in Prices, f \in BreakEvenFaults : Commit(move_sl_to_entry(World, price, f))

\* the move_sl lists the oracle may return
MoveSlActs == {<<>>} \cup {<<[pair |-> p, sl |-> s]>> : p \in PAIRS, s \in NewStops}

\* the coin lists the oracle and the sizer may return
CoinLists == UNION {[1..n -> {c \in EnrichedCoins : c.side = bias}] : n \in 0..MaxCoins}

\* the circumstances of one run(): the faults up to the gate and after it (a fault
\* lasts the whole cycle, starts after the gate, or is over after the gate), whether
\* the payload has coins, the coins and the move_sl list that come back
RunChoices ==
    {c \in [f0 : PassFaults, f : ActFaults, has_coins : BOOLEAN, cs : CoinLists, ms : MoveSlActs] :
        /\ c.f0 \in {NoFault, c.f} \/ c.f = NoFault
        /\ ~c.has_coins => (c.cs = <<>> /\ c.ms = <<>> /\ c.f = c.f0)}

\* run_job of live_loop: run(run_live=True).  A cycle in which build_payload or
\* send_openai raises leaves the exchange and the store as a cycle without coins
\* does (has_coins = FALSE): the cleanup passes have run, nothing else has.
RunJob ==
    \E c \in RunChoices : Commit(run(World, c.f0, c.f, c.has_coins, c.cs, c.ms))

CloseFaults ==
    Faults({"fetch_open_orders", "fetch_positions", "cancel_order", "create_close"}, 1)

\* run_job of live_loop in a cycle whose oracle asks to close everything
CloseAllJob ==
    \E f0 \in PassFaults, f \in CloseFaults, doc \in CloseAllDocs :
        /\ f0 \in {NoFault, f} \/ f = NoFault
        /\ Commit(run_close_all(World, f0, f, doc))

\* run(run_live=False), the entry point without --live (lines 866-877)
DryRun ==
    \E payload \in Payloads, oracle \in OracleOutcomes, cs \in CoinLists, ms \in MoveSlActs :
        Commit(run_cycle(World, FALSE, NoFault, NoFault, payload, oracle, cs, ms))

\* the exchange fills a resting entry order
Fill ==
    /\ \E o \in orders :
        /\ o.status = "open" /\ Lower(o.type) = "limit" /\ ~o.reduceOnly
        /\ positions[norm_pair_from_symbol(o.symbol)] = Flat
        /\ orders' = Renumbered((orders \ {o}) \cup {[o EXCEPT !.status = "closed"]}, files)
        /\ files' = Relinked((orders \ {o}) \cup {[o EXCEPT !.status = "closed"]}, files)
        /\ nextId' = Cardinality(orders') + 1
        /\ positions' = [positions EXCEPT ![norm_pair_from_symbol(o.symbol)] =
                            [side |-> o.side, qty |-> o.qty, entry |-> o.price]]
    /\ UNCHANGED <<now, bias, jobs, tool>>

\* the stop-loss of an open position triggers and closes the position
PositionClosed ==
    /\ \E o \in orders :
        /\ o.status = "open" /\ o.closePosition
        /\ positions[norm_pair_from_symbol(o.symbol)].qty > 0
        /\ o.side = ExitSide(positions[norm_pair_from_symbol(o.symbol)].side)
        /\ orders' = Renumbered(orders \ {o}, files)
        /\ files' = Relinked(orders \ {o}, files)
        /\ nextId' = Cardinality(orders') + 1
        /\ positions' = [positions EXCEPT ![norm_pair_from_symbol(o.symbol)] = Flat]
    /\ UNCHANGED <<now, bias, jobs, tool>>

\* time passes
Tick ==
    /\ now < (MaxTicks + 1) * TickSec
    /\ now' = now + TickSec
    /\ UNCHANGED <<orders, positions, files, nextId, bias, jobs, tool>>

Next ==
    \/ AddSlTpSweep
    \/ ExpirySweep
    \/ StaleLimitsPass
    \/ UnmappedFilesPass
    \/ OrphanStopsPass
    \/ BreakEvenPass
    \/ RunJob
    \/ CloseAllJob
    \/ DryRun
    \/ Fill
    \/ PositionClosed
    \/ Tick

Spec == Init /\ [][Next]_vars

----------------------------------------------------------------------------
\* live_loop: the three jobs run on the threads of the scheduler, no lock is
\* taken, so the exchange calls and file operations of the jobs interleave.
\* A job advances by one mutating call (or one block of reads) at a time.

\* the state one step of a job leaves: ids stay as the jobs hold them
Step(w, job, pc, data) ==
    /\ orders' = w.orders
    /\ positions' = w.positions
    /\ files' = w.files
    /\ nextId' = w.nextId
    /\ jobs' = [jobs EXCEPT ![job] =
                    IF pc = "idle" THEN JobIdle(jobs[job].runs)
                    ELSE [pc |-> pc, data |-> data, runs |-> jobs[job].runs]]
    /\ UNCHANGED <<now, bias, tool>>

\* the scheduler starts a job that is not running
Started(job) ==
    /\ jobs[job].pc = "idle"
    /\ jobs[job].runs < MaxJobRuns

Counted(job) == [jobs EXCEPT ![job].runs = @ + 1]

\* run_job: run() up to the entry loop (lines 206-412): cleanup, gate, oracle, sizing
RunJobStart ==
    /\ Started("run_job")
    /\ \E cs \in CoinLists :
        LET w == RunCleanup(World, NoFault)
            gated == CurrentPos(w, NoFault) >= MAX_OPEN_POSITIONS
            pos_pairs_live == get_open_position_pairs(w, NoFault)
            c == cs[1]
            skip == \/ gated \/ cs = <<>>
                    \/ c.side \notin {"buy", "sell"} \/ c.pair \in pos_pairs_live
                    \/ c.tp1 = None
        IN  /\ orders' = w.orders
            /\ files' = w.files
            /\ jobs' = IF skip THEN Counted("run_job")
                       ELSE [Counted("run_job") EXCEPT !["run_job"].pc = "cancel_all",
                                                       !["run_job"].data = c]
    /\ UNCHANGED <<positions, nextId, now, bias, tool>>

\* run, line 413: cancel_all_orders_for_pair(ex, ccxt_sym, pair)
RunJobCancelAll ==
    /\ jobs["run_job"].pc = "cancel_all"
    /\ LET c == jobs["run_job"].data
       IN  Step(cancel_all_orders_for_pair(World, to_ccxt_symbol(c.pair), c.pair, NoFault),
                "run_job", "create", c)

\* run, lines 414-420: ex.create_order(ccxt_sym, "limit", side, qty, entry, ...)
RunJobCreate ==
    /\ jobs["run_job"].pc = "create"
    /\ LET c == jobs["run_job"].data
       IN  Step(CreateOrder(World, to_ccxt_symbol(c.pair), "limit", c.side, c.qty, c.entry,
                            None, FALSE, FALSE, TRUE),
                "run_job", "save", PendingEntry(c, nextId, now))

\* run, lines 421-439: save_text(f"{pair}.json", ...)
RunJobSave ==
    /\ jobs["run_job"].pc = "save"
    /\ Step(save_text(World, [jobs["run_job"].data EXCEPT !.ts = now]),
            "run_job", "idle", NoData)

\* limit_job: add_sl_tp_from_json, lines 658-678: read the file, fetch the order
LimitJobStart ==
    /\ Started("limit_job")
    /\ \E ord \in GlobOrders :
        LET pair == ord[1]
            data == FileOf(World, pair)
            go == /\ HasFile(World, pair)
                  /\ Truthy(data.order_id) /\ Truthy(data.qty) /\ Truthy(data.sl)
                  /\ Truthy(data.tp1)
                  /\ FetchOrderStatus(World, data.order_id, to_ccxt_symbol(pair), NoFault)
                        = "closed"
        IN  jobs' = IF go
                    THEN [Counted("limit_job") EXCEPT !["limit_job"].pc = "place",
                                                      !["limit_job"].data = data]
                    ELSE Counted("limit_job")
    /\ UNCHANGED <<orders, positions, files, nextId, now, bias, tool>>

\* limit_job: add_sl_tp_from_json, line 679: _place_sl_tp(...)
LimitJobPlace ==
    /\ jobs["limit_job"].pc = "place"
    /\ LET data == jobs["limit_job"].data
           w == place_sl_tp(World, to_ccxt_symbol(data.pair), data.side, data.qty, data.sl,
                            data.tp1, data.tp2, data.tp3, NoFault)
       IN  Step(w, "limit_job", IF w.raised THEN "idle" ELSE "unlink", data)

\* limit_job: add_sl_tp_from_json, lines 680-686: fp.unlink()
LimitJobUnlink ==
    /\ jobs["limit_job"].pc = "unlink"
    /\ Step(Unlink(World, jobs["limit_job"].data.pair), "limit_job", "idle", NoData)

\* expiry_job: cancel_expired_limit_orders, lines 582-603: read the file, fetch the order
ExpiryJobStart ==
    /\ Started("expiry_job")
    /\ \E ord \in GlobOrders :
        LET pair == ord[1]
            data == FileOf(World, pair)
            go == /\ HasFile(World, pair)
                  /\ Truthy(data.expiry) /\ Truthy(data.ts) /\ Truthy(data.order_id)
                  /\ now - data.ts >= data.expiry
            status == FetchOrderStatus(World, data.order_id, to_ccxt_symbol(pair), NoFault)
        IN  jobs' = IF go
                    THEN [Counted("expiry_job") EXCEPT
                            !["expiry_job"].pc = IF status = "closed" THEN "unlink_closed"
                                                 ELSE "cancel",
                            !["expiry_job"].data = data]
                    ELSE Counted("expiry_job")
    /\ UNCHANGED <<orders, positions, files, nextId, now, bias, tool>>

\* expiry_job: cancel_expired_limit_orders, lines 612-617: cancel_order, errors logged
ExpiryJobCancel ==
    /\ jobs["expiry_job"].pc = "cancel"
    /\ LET data == jobs["expiry_job"].data
       IN  Step(CancelOrder(World, data.order_id, to_ccxt_symbol(data.pair), NoFault),
                "expiry_job", "unlink", data)

\* expiry_job: cancel_expired_limit_orders, lines 604-611 and 618-623: fp.unlink()
ExpiryJobUnlink ==
    /\ jobs["expiry_job"].pc \in {"unlink", "unlink_closed"}
    /\ Step(Unlink(World, jobs["expiry_job"].data.pair), "expiry_job", "idle", NoData)

\* the exchange fills a resting entry order while the jobs run
FillLive ==
    /\ \E o \in orders :
        /\ o.status = "open" /\ Lower(o.type) = "limit" /\ ~o.reduceOnly
        /\ positions[norm_pair_from_symbol(o.symbol)] = Flat
        /\ orders' = (orders \ {o}) \cup {[o EXCEPT !.status = "closed"]}
        /\ positions' = [positions EXCEPT ![norm_pair_from_symbol(o.symbol)] =
                            [side |-> o.side, qty |-> o.qty, entry |-> o.price]]
    /\ UNCHANGED <<files, nextId, now, bias, jobs, tool>>

\* time passes while the jobs run
TickLive ==
    /\ now < (MaxTicks + 1) * TickSec
    /\ now' = now + TickSec
    /\ UNCHANGED <<orders, positions, files, nextId, bias, jobs, tool>>

NextLive ==
    \/ RunJobStart
    \/ RunJobCancelAll
    \/ RunJobCreate
    \/ RunJobSave
    \/ LimitJobStart
    \/ LimitJobPlace
    \/ LimitJobUnlink
    \/ ExpiryJobStart
    \/ ExpiryJobCancel
    \/ ExpiryJobUnlink
    \/ FillLive
    \/ TickLive

SpecLive == Init /\ [][NextLive]_vars

----------------------------------------------------------------------------
\* live_loop, lines 806-865: the job functions the scheduler calls.  Each wraps
\* its handler in try / except Exception / finally; the scheduler fires a job
\* again at each of its times (cron minute 0,15,30,45; interval 60 s), which the
\* fairness of Trigger stands for.

\* the state a job function leaves when its handler has run
Landed(w, job, pc) ==
    /\ Cardinality(Kept(w.orders, w.files)) <= MaxOrders
    /\ orders' = Renumbered(w.orders, w.files)
    /\ positions' = w.positions
    /\ files' = Relinked(w.orders, w.files)
    /\ nextId' = Cardinality(Kept(w.orders, w.files)) + 1
    /\ jobs' = [jobs EXCEPT ![job].pc = pc]
    /\ UNCHANGED <<now, bias, tool>>

\* where the try block of a job function ends
AfterTry(is_raised) == IF is_raised THEN "except" ELSE "finally"

\* scheduler.add_job(...), lines 856-862: the scheduler calls a job function
Trigger(job) ==
    /\ jobs[job].pc = "idle"
    /\ jobs' = [jobs EXCEPT ![job].pc = "try"]
    /\ UNCHANGED <<orders, positions, files, nextId, now, bias, tool>>

\* the circumstances of a cycle: build_payload returns coins or raises, the
\* oracle answers, the exchange accepts every call
SchedRunChoices == {c \in RunChoices : c.f0 = NoFault /\ c.f = NoFault /\ c.ms = <<>>}

\* the circumstances of a completion sweep: the exchange accepts the stop-loss
\* or rejects it
SchedSweepFaults == {f \in SweepFaults : f.kinds \subseteq {"create_sl_error"}}

\* the worlds one cycle can leave, line 810: run(run_live=True, limit=limit, ex=ex)
RunJobOutcomes ==
    {run_cycle(World, TRUE, c.f0, c.f, IF c.has_coins THEN "coins" ELSE payload, "ok",
               c.cs, c.ms) :
        c \in SchedRunChoices, payload \in {"no_coins", "raise"}}

\* run_job, lines 806-812: the try block
RunJobTry ==
    /\ jobs["run_job"].pc = "try"
    /\ \E w \in RunJobOutcomes : Landed(w, "run_job", AfterTry(w.raised \/ w.cycle.raised))

\* the worlds one completion sweep can leave, line 829: add_sl_tp_from_json(ex)
LimitJobOutcomes ==
    {add_sl_tp_from_json(World, ord, f) : ord \in GlobOrders, f \in SchedSweepFaults}

\* limit_job, lines 825-831: the try block
LimitJobTry ==
    /\ jobs["limit_job"].pc = "try"
    /\ \E w \in LimitJobOutcomes : Landed(w, "limit_job", AfterTry(w.raised))

\* the worlds one expiry sweep can leave, line 841: cancel_expired_limit_orders(ex)
ExpiryJobOutcomes ==
    {cancel_expired_limit_orders(World, ord, NoFault) : ord \in GlobOrders}

\* expiry_job, lines 837-843: the try block
ExpiryJobTry ==
    /\ jobs["expiry_job"].pc = "try"
    /\ \E w \in ExpiryJobOutcomes : Landed(w, "expiry_job", AfterTry(w.raised))

\* an exception that leaves the job function and ends the job for good
JobExceptUncaught(job) ==
    /\ jobs[job].pc = "except"
    /\ jobs' = [jobs EXCEPT ![job].pc = "removed"]
    /\ UNCHANGED <<orders, positions, files, nextId, now, bias, tool>>

\* except Exception: logger.exception(...), lines 811-812, 830-831, 842-843
JobExcept(job) ==
    /\ jobs[job].pc = "except"
    /\ jobs' = [jobs EXCEPT ![job].pc = "finally"]
    /\ UNCHANGED <<orders, positions, files, nextId, now, bias, tool>>

\* finally: logger.info(...), lines 813-816, 832-835, 844-847; the function returns
JobFinally(job) ==
    /\ jobs[job].pc = "finally"
    /\ jobs' = [jobs EXCEPT ![job].pc = "idle"]
    /\ UNCHANGED <<orders, positions, files, nextId, now, bias, tool>>

JobTriggered == \E job \in Jobs : Trigger(job)

JobCaught == \E job \in Jobs : JobExcept(job)

JobReturned == \E job \in Jobs : JobFinally(job)

NextSched ==
    \/ JobTriggered
    \/ RunJobTry
    \/ LimitJobTry
    \/ ExpiryJobTry
    \/ JobCaught
    \/ JobReturned
    \/ Fill
    \/ PositionClosed
    \/ Tick

\* the scheduler keeps firing each job and a thread that runs a job function goes
\* on; the try block of a job ends, because every exchange call answers or raises
SpecSched ==
    /\ Init
    /\ [][NextSched]_vars
    /\ \A job \in Jobs : WF_vars(Trigger(job)) /\ WF_vars(JobExcept(job))
                         /\ WF_vars(JobFinally(job))
    /\ \A job \in Jobs : []<>(jobs[job].pc # "try")

----------------------------------------------------------------------------
\* openai_client.send_openai, lines 68-93, one attempt or one sleep at a time

\* attempts of the retry loop: range(3)
MaxAttempts == 3

\* what one CLIENT.chat.completions.create call does: it returns, it raises a
\* transport error (APIConnectionError, APITimeoutError), or it raises another
\* exception; `status` is what getattr(e, "status") or getattr(e, "http_status")
\* gives (None when the exception carries neither), `permanent` tells whether the
\* error is one that no retry can cure (a client error other than 429, bad
\* credentials)
ApiOutcomes ==
    {[kind |-> "ok", status |-> None, permanent |-> FALSE],
     [kind |-> "transport", status |-> None, permanent |-> FALSE],
     [kind |-> "error", status |-> 429, permanent |-> FALSE],
     [kind |-> "error", status |-> 500, permanent |-> FALSE],
     [kind |-> "error", status |-> 400, permanent |-> TRUE],
     [kind |-> "error", status |-> None, permanent |-> TRUE]}

\* what the API does at each attempt of one send_openai call
ApiScripts == [1..MaxAttempts -> ApiOutcomes]

\* send_openai entered: attempt = 0, nothing slept yet
OpenAiCall(script) ==
    [op |-> "send_openai", pc |-> "call", attempt |-> 0, calls |-> 0,
     waits |-> <<>>, script |-> script]

\* a retry that does not look at the attempt number
RetriedNoLimit(attempt, out) ==
    \/ out.kind = "transport"
    \/ out.kind = "error" /\ (out.status = None \/ out.status >= 500 \/ out.status = 429)

\* lines 76 and 85: the attempt is retried
Retried(attempt, out) ==
    /\ attempt < MaxAttempts - 1
    /\ \/ out.kind = "transport"
       \/ out.kind = "error" /\ (out.status = None \/ out.status >= 500 \/ out.status = 429)

\* lines 69-93: one pass of the loop body up to return, raise or time.sleep
OpenAiAttempt ==
    /\ tool.op = "send_openai" /\ tool.pc = "call"
    /\ LET out == tool.script[tool.attempt + 1]
           t == [tool EXCEPT !.calls = @ + 1]
       IN  tool' = IF out.kind = "ok" THEN [t EXCEPT !.pc = "returned"]
                   ELSE IF Retried(tool.attempt, out) THEN [t EXCEPT !.pc = "sleep"]
                   ELSE [t EXCEPT !.pc = "raised"]
    /\ UNCHANGED <<orders, positions, files, nextId, now, bias, jobs>>

\* lines 77-80 and 86-91: wait = 2 * (attempt + 1); time.sleep(wait); continue
OpenAiSleep ==
    /\ tool.op = "send_openai" /\ tool.pc = "sleep"
    /\ tool' = [tool EXCEPT !.waits = Append(@, 2 * (tool.attempt + 1)),
                            !.attempt = @ + 1, !.pc = "call"]
    /\ UNCHANGED <<orders, positions, files, nextId, now, bias, jobs>>

InitOpenAi ==
    /\ orders = {}
    /\ positions = [p \in PAIRS |-> Flat]
    /\ files = {}
    /\ nextId = 1
    /\ now = TickSec
    /\ bias = "buy"
    /\ jobs = [j \in Jobs |-> JobIdle(0)]
    /\ tool \in {OpenAiCall(script) : script \in ApiScripts}

NextOpenAi ==
    \/ OpenAiAttempt
    \/ OpenAiSleep

\* the loop of send_openai runs on: a call returns or raises, a sleep ends
SpecOpenAi == InitOpenAi /\ [][NextOpenAi]_vars /\ WF_vars(NextOpenAi)

----------------------------------------------------------------------------
\* trading_utils.calc_qty and round_step, lines 164-189.  A quantity is a rational
\* number, kept as numerator and denominator; the result is a multiple k * step.

MaxCapital == 3     \* capital, in hundreds
MaxDist == 3        \* distance between entry and stop-loss

Capitals == {100 * c : c \in 0..MaxCapital}

Distances == 0..MaxDist

RiskFracs == {1, 50}        \* risk_frac * RiskScale

Steps == {1, 2}             \* step

Leverages == {1, 2}         \* max_leverage

SizerEntry == 100           \* entry

\* a quantity that raises with the distance
calc_qty_times_dist(capital, risk_frac, entry, sl, step, max_leverage, contract_size) ==
    LET dist == IF entry >= sl THEN entry - sl ELSE sl - entry
    IN  (capital * risk_frac * dist) \div (RiskScale * step)

\* calc_qty, lines 183-189, in units of step: floor(min(raw, max_qty) / step)
calc_qty(capital, risk_frac, entry, sl, step, max_leverage, contract_size) ==
    LET dist == IF entry >= sl THEN entry - sl ELSE sl - entry
        raw_n == capital * risk_frac
        raw_d == RiskScale * dist
        max_n == capital * max_leverage
        max_d == entry * contract_size
    IN  IF dist <= 0 \/ risk_frac <= 0 \/ capital <= 0
        THEN 0
        ELSE IF raw_n * max_d <= max_n * raw_d
        THEN raw_n \div (raw_d * step)
        ELSE max_n \div (max_d * step)

\* a rounding that goes up to the next multiple of step
round_step_up(qty_n, qty_d, step) ==
    IF step <= 0
    THEN [raised |-> FALSE, n |-> qty_n, d |-> qty_d]
    ELSE [raised |-> FALSE, n |-> ((qty_n + qty_d * step - 1) \div (qty_d * step)) * step, d |-> 1]

\* round_step, lines 164-169, on the quantity qty_n / qty_d: the quantity itself
\* when step <= 0, else math.floor(qty / step) * step
round_step(qty_n, qty_d, step) ==
    IF step <= 0
    THEN [raised |-> FALSE, n |-> qty_n, d |-> qty_d]
    ELSE [raised |-> FALSE, n |-> (qty_n \div (qty_d * step)) * step, d |-> 1]

\* calc_qty, lines 183-189, for every input: the quantity n / d it returns, or the
\* ZeroDivisionError of line 187 when entry * contract_size is 0
calc_qty_value(capital, risk_frac, entry, sl, step, max_leverage, contract_size) ==
    LET dist == IF entry >= sl THEN entry - sl ELSE sl - entry
        raw_n == capital * risk_frac
        raw_d == RiskScale * dist
        max_n == capital * max_leverage
        max_d == entry * contract_size
    IN  IF dist <= 0 \/ risk_frac <= 0 \/ capital <= 0
        THEN [raised |-> FALSE, n |-> 0, d |-> 1]
        ELSE IF max_d = 0
        THEN [raised |-> TRUE, n |-> 0, d |-> 1]
        ELSE IF raw_n * max_d <= max_n * raw_d
        THEN round_step(raw_n, raw_d, step)
        ELSE round_step(max_n, max_d, step)

----------------------------------------------------------------------------
\* build_payload: the selection of the instruments (payload_builder.py)

MaxMarkets == 3
MaxLimit == 2

\* a base is a sequence of tokens, a numeric prefix being a token of Digits
Digits == {"1000"}

\* exchange_utils.BLACKLIST_BASES, one of its bases
BLACKLIST_BASES == {<<"BNB">>}

\* the bases of the exchange's USDT-margined markets
MarketBases == {<<"AAA">>, <<"1000", "AAA">>, <<"BBB">>, <<"BNB">>}

\* the symbols of the market-capitalisation source
CapSymbols == {<<"AAA">>, <<"BBB">>, <<"BNB">>}

\* strip_numeric_prefix, line 102: re.sub(r"^\d+", "", base)
RECURSIVE strip_numeric_prefix(_)
strip_numeric_prefix(base) ==
    IF base # <<>> /\ Head(base) \in Digits
    THEN strip_numeric_prefix(Tail(base))
    ELSE base

\* the CCXT symbol "BASE/USDT:USDT" of a market
MarketSymbol(base) == [base |-> base, quote |-> "USDT", settle |-> "USDT"]

\* norm_pair_symbol, lines 82-87: the part before ":" without its "/"
norm_pair_symbol(symbol) == symbol.base \o <<symbol.quote>>

\* pair[:-4], line 211: the pair without its quote
PairBase(pair) == SubSeq(pair, 1, Len(pair) - 1)

Take(seq, n) == SubSeq(seq, 1, IF n < Len(seq) THEN IF n < 0 THEN 0 ELSE n ELSE Len(seq))

\* load_usdtm, lines 53-69: the markets whose base is not blacklisted, in the
\* order of load_markets
load_usdtm(listed) == SelectSeq(listed, LAMBDA b : b \notin BLACKLIST_BASES)

\* cache_top_by_qv, lines 90-137: the first `limit` symbols of the volume ranking
cache_top_by_qv(ranking, limit) == Take([i \in 1..Len(ranking) |-> MarketSymbol(ranking[i])], limit)

\* top_by_market_cap, lines 180-216: the symbols that are not blacklisted, cut
\* to the limit it is called with
top_by_market_cap(listing, limit) ==
    Take(SelectSeq(listing, LAMBDA b : b \notin BLACKLIST_BASES), limit)

\* lines 201-204: base_map[strip_numeric_prefix(b)] = sym, a later market
\* replacing an earlier one with the same stripped base
BaseMap(markets) ==
    LET keys == {strip_numeric_prefix(markets[i]) : i \in 1..Len(markets)}
        last(k) == CHOOSE i \in 1..Len(markets) :
                      /\ strip_numeric_prefix(markets[i]) = k
                      /\ \A j \in 1..Len(markets) :
                            strip_numeric_prefix(markets[j]) = k => j <= i
    IN  [k \in keys |-> MarketSymbol(markets[last(k)])]

\* a first loop that lets a base be used twice
SkippedUnlessUsed(pair, base, exclude_pairs, pos_pairs, mc_bases, used_bases) ==
    \/ pair \in exclude_pairs
    \/ pair \in pos_pairs
    \/ base \notin mc_bases

\* lines 212-218: the condition under which the first loop passes a symbol by
Skipped(pair, base, exclude_pairs, pos_pairs, mc_bases, used_bases) ==
    \/ pair \in exclude_pairs
    \/ pair \in pos_pairs
    \/ base \notin mc_bases
    \/ base \in used_bases

\* lines 209-222: the loop over the volume ranking
RECURSIVE VolumeLoop(_, _, _, _, _, _)
VolumeLoop(volumes, limit, exclude_pairs, pos_pairs, mc_bases, st) ==
    IF volumes = <<>>
    THEN st
    ELSE LET s == Head(volumes)
             pair == norm_pair_symbol(s)
             base == strip_numeric_prefix(PairBase(pair))
             st2 == [symbols |-> Append(st.symbols, s),
                     used_bases |-> st.used_bases \cup {base}]
         IN  IF Skipped(pair, base, exclude_pairs, pos_pairs, mc_bases, st.used_bases)
             THEN VolumeLoop(Tail(volumes), limit, exclude_pairs, pos_pairs, mc_bases, st)
             ELSE IF Len(st2.symbols) >= limit
             THEN st2
             ELSE VolumeLoop(Tail(volumes), limit, exclude_pairs, pos_pairs, mc_bases, st2)

\* lines 224-236: the loop over the market-cap ranking
RECURSIVE CapLoop(_, _, _, _, _, _)
CapLoop(mc_list, limit, exclude_pairs, pos_pairs, base_map, st) ==
    IF mc_list = <<>> \/ Len(st.symbols) >= limit
    THEN st
    ELSE LET base == Head(mc_list)
             rest == Tail(mc_list)
         IN  IF base \in st.used_bases \/ base \notin DOMAIN base_map
             THEN CapLoop(rest, limit, exclude_pairs, pos_pairs, base_map, st)
             ELSE IF norm_pair_symbol(base_map[base]) \in exclude_pairs
                     \/ norm_pair_symbol(base_map[base]) \in pos_pairs
             THEN CapLoop(rest, limit, exclude_pairs, pos_pairs, base_map, st)
             ELSE CapLoop(rest, limit, exclude_pairs, pos_pairs, base_map,
                          [symbols |-> Append(st.symbols, base_map[base]),
                           used_bases |-> st.used_bases \cup {base}])

\* the pairs of positions_snapshot, positions.py lines 59-68: none when
\* fetch_positions raises
SnapshotPairs(held, fetch_ok) == IF fetch_ok THEN held ELSE {}

\* build_payload, lines 194-239: the symbols it selects; ThreadPoolExecutor
\* raises ValueError when there is none
build_payload(listed, ranking, listing, held, fetch_ok, limit, exclude_pairs) ==
    LET pos_pairs == SnapshotPairs(held, fetch_ok)
        volumes == cache_top_by_qv(ranking, limit)
        mc_list == top_by_market_cap(listing, IF limit > 200 THEN limit ELSE 200)
        mc_bases == {mc_list[i] : i \in 1..Len(mc_list)}
        markets == load_usdtm(listed)
        first == VolumeLoop(volumes, limit, exclude_pairs, pos_pairs, mc_bases,
                            [symbols |-> <<>>, used_bases |-> {}])
        second == CapLoop(mc_list, limit, exclude_pairs, pos_pairs, BaseMap(markets), first)
    IN  [symbols |-> second.symbols, raised |-> second.symbols = <<>>]

----------------------------------------------------------------------------
\* The pair key and the exchange symbol, character by character

MaxBase == 2

\* trading_utils.KNOWN_QUOTES, lines 113-121, in the order of the source
KNOWN_QUOTES ==
    << <<"U", "S", "D", "T">>, <<"B", "U", "S", "D">>, <<"U", "S", "D", "C">>,
       <<"U", "S", "D">>, <<"B", "T", "C">>, <<"E", "T", "H">>, <<"B", "N", "B">> >>

\* the characters a base is written with
BaseChars == {"B", "X", "x"}

\* str.upper() on one character
UpperChar(c) == IF c = "x" THEN "X" ELSE c

Upper(s) == [i \in 1..Len(s) |-> UpperChar(s[i])]

\* sorted(KNOWN_QUOTES, key=len, reverse=True), line 139: the longer quotes
\* first, quotes of one length in the order of the source
RECURSIVE QuotesFrom(_)
QuotesFrom(n) ==
    IF n = 0 THEN <<>>
    ELSE SelectSeq(KNOWN_QUOTES, LAMBDA q : Len(q) = n) \o QuotesFrom(n - 1)

SortedQuotes == QuotesFrom(4)

\* str.endswith
EndsWith(s, q) == Len(s) >= Len(q) /\ SubSeq(s, Len(s) - Len(q) + 1, Len(s)) = q

\* s[:-n] and s[-n:]
DropLast(s, n) == SubSeq(s, 1, Len(s) - n)

TakeLast(s, n) == IF Len(s) <= n THEN s ELSE SubSeq(s, Len(s) - n + 1, Len(s))

\* to_ccxt_symbol, lines 139-143: the loop over the sorted quotes from quote i on
RECURSIVE SplitAtQuote(_, _)
SplitAtQuote(pair, i) ==
    IF i > Len(SortedQuotes)
    THEN DropLast(pair, 4) \o <<"/">> \o TakeLast(pair, 4)
    ELSE IF EndsWith(pair, SortedQuotes[i]) /\ Len(pair) > Len(SortedQuotes[i])
         THEN DropLast(pair, Len(SortedQuotes[i])) \o <<"/">> \o SortedQuotes[i]
         ELSE SplitAtQuote(pair, i + 1)

\* to_ccxt_symbol, lines 125-145, called without an exchange
to_ccxt_symbol_text(pair_no_slash) == SplitAtQuote(Upper(pair_no_slash), 1)

\* symbol.split(":")[0]
RECURSIVE BeforeColon(_)
BeforeColon(s) ==
    IF s = <<>> \/ Head(s) = ":" THEN <<>> ELSE <<Head(s)>> \o BeforeColon(Tail(s))

\* a conversion that keeps the "/" of the symbol
norm_pair_keeping_slash(symbol) == Upper(BeforeColon(symbol))

\* positions._norm_pair_from_symbol, lines 14-20
norm_pair_from_symbol_text(symbol) ==
    Upper(SelectSeq(BeforeColon(symbol), LAMBDA c : c # "/"))

\* the symbols BASE/QUOTE, and the same with the settle currency ccxt appends
SymbolCalls ==
    {[op |-> "to_ccxt_symbol", pc |-> "call",
      args |-> [base |-> b, quote |-> KNOWN_QUOTES[k], settle |-> st]] :
        b \in SeqsUpTo(BaseChars, MaxBase) \ {<<>>}, k \in 1..Len(KNOWN_QUOTES),
        st \in BOOLEAN}

SymbolOf(a) ==
    a.base \o <<"/">> \o a.quote \o (IF a.settle THEN <<":">> \o a.quote ELSE <<>>)

----------------------------------------------------------------------------
\* The helpers called on their own

ParseCalls == {[op |-> "parse_mini_actions", pc |-> "call", args |-> doc] : doc \in OracleDocs}

SideCalls ==
    {[op |-> "infer_side", pc |-> "call", args |-> [entry |-> e, sl |-> sl, tp |-> tp]] :
        e \in {100}, sl \in {90, 100, 110}, tp \in {None, 90, 100, 110}}

SizerCalls ==
    {[op |-> "calc_qty", pc |-> "call",
      args |-> [capital |-> c, risk_frac |-> r, entry |-> SizerEntry, sl |-> SizerEntry - d,
                step |-> st, max_leverage |-> l, contract_size |-> 1]] :
        c \in Capitals, r \in RiskFracs, d \in Distances, st \in Steps, l \in Leverages}

\* calc_qty on every kind of input: a step of 0, an entry of 0, no capital, no risk
ValueCalls ==
    {[op |-> "calc_qty_value", pc |-> "call",
      args |-> [capital |-> c, risk_frac |-> r, entry |-> e, sl |-> e - d,
                step |-> st, max_leverage |-> l, contract_size |-> 1]] :
        c \in Capitals, r \in RiskFracs \cup {0}, e \in {0, SizerEntry}, d \in Distances,
        st \in Steps \cup {0}, l \in Leverages}

\* the sequences without repetition of at most n elements of S
Rankings(S, n) == {q \in SeqsUpTo(S, n) : \A i, j \in 1..Len(q) : q[i] = q[j] => i = j}

Range(q) == {q[i] : i \in 1..Len(q)}

\* the pairs of a list of markets
PairsOf(listed) == {norm_pair_symbol(MarketSymbol(b)) : b \in Range(listed)}

AtMostOne(S) == {{}} \cup {{x} : x \in S}

\* build_payload on the markets of the exchange, a volume ranking of the loaded
\* markets, a market-cap listing, at most one open position and one excluded
\* pair; fetch_positions may fail when there is a position to report
PayloadCall(ms, rk, mc, h, ok, l, x) ==
    [op |-> "build_payload", pc |-> "call",
     args |-> [listed |-> ms, ranking |-> rk, listing |-> mc, held |-> h,
               fetch_ok |-> ok, limit |-> l, exclude_pairs |-> x]]

InitPayload ==
    \E ms \in Rankings(MarketBases, MaxMarkets) :
      \E rk \in Rankings(Range(load_usdtm(ms)), MaxLimit), mc \in Rankings(CapSymbols, 2) :
        \E h \in AtMostOne(PairsOf(ms)), x \in AtMostOne(PairsOf(ms)), l \in 0..MaxLimit :
          \E ok \in IF h = {} THEN {TRUE} ELSE BOOLEAN :
            tool = PayloadCall(ms, rk, mc, h, ok, l, x)

CallParser ==
    /\ tool.op = "parse_mini_actions" /\ tool.pc = "call"
    /\ tool' = [op |-> tool.op, pc |-> "done", args |-> tool.args,
                result |-> parse_mini_actions(tool.args)]
    /\ UNCHANGED <<orders, positions, files, nextId, now, bias, jobs>>

CallInferSide ==
    /\ tool.op = "infer_side" /\ tool.pc = "call"
    /\ tool' = [op |-> tool.op, pc |-> "done", args |-> tool.args,
                result |-> infer_side(tool.args.entry, tool.args.sl, tool.args.tp)]
    /\ UNCHANGED <<orders, positions, files, nextId, now, bias, jobs>>

CallCalcQty ==
    /\ tool.op = "calc_qty" /\ tool.pc = "call"
    /\ tool' = [op |-> tool.op, pc |-> "done", args |-> tool.args,
                result |-> calc_qty(tool.args.capital, tool.args.risk_frac, tool.args.entry,
                                    tool.args.sl, tool.args.step, tool.args.max_leverage,
                                    tool.args.contract_size)]
    /\ UNCHANGED <<orders, positions, files, nextId, now, bias, jobs>>

CallCalcQtyValue ==
    /\ tool.op = "calc_qty_value" /\ tool.pc = "call"
    /\ tool' = [op |-> tool.op, pc |-> "done", args |-> tool.args,
                result |-> calc_qty_value(tool.args.capital, tool.args.risk_frac,
                                          tool.args.entry, tool.args.sl, tool.args.step,
                                          tool.args.max_leverage, tool.args.contract_size)]
    /\ UNCHANGED <<orders, positions, files, nextId, now, bias, jobs>>

CallBuildPayload ==
    /\ tool.op = "build_payload" /\ tool.pc = "call"
    /\ tool' = [op |-> tool.op, pc |-> "done", args |-> tool.args,
                result |-> build_payload(tool.args.listed, tool.args.ranking,
                                         tool.args.listing, tool.args.held,
                                         tool.args.fetch_ok, tool.args.limit,
                                         tool.args.exclude_pairs)]
    /\ UNCHANGED <<orders, positions, files, nextId, now, bias, jobs>>

\* symbol -> pair -> symbol -> pair
CallSymbolRoundTrip ==
    /\ tool.op = "to_ccxt_symbol" /\ tool.pc = "call"
    /\ LET pair == norm_pair_from_symbol_text(SymbolOf(tool.args))
           symbol == to_ccxt_symbol_text(pair)
       IN  tool' = [op |-> tool.op, pc |-> "done", args |-> tool.args,
                    result |-> [pair |-> pair, symbol |-> symbol,
                                back |-> norm_pair_from_symbol_text(symbol)]]
    /\ UNCHANGED <<orders, positions, files, nextId, now, bias, jobs>>

InitTools ==
    /\ orders = {}
    /\ positions = [p \in PAIRS |-> Flat]
    /\ files = {}
    /\ nextId = 1
    /\ now = TickSec
    /\ bias = "buy"
    /\ jobs = [j \in Jobs |-> JobIdle(0)]
    /\ \/ tool \in ParseCalls \cup SideCalls \cup SizerCalls \cup ValueCalls \cup SymbolCalls
       \/ InitPayload

NextTools ==
    \/ CallParser
    \/ CallInferSide
    \/ CallCalcQty
    \/ CallCalcQtyValue
    \/ CallBuildPayload
    \/ CallSymbolRoundTrip

SpecTools == InitTools /\ [][NextTools]_vars

----------------------------------------------------------------------------
\* Reading the calls a handler issued

IsCreate(c) == c.op = "create_order"

IsCancel(c) == c.op = "cancel_order"

CreateIdx(w) == {i \in DOMAIN w.calls : IsCreate(w.calls[i])}

CancelIdx(w) == {i \in DOMAIN w.calls : IsCancel(w.calls[i])}

StopIdx(w) == {i \in CreateIdx(w) : w.calls[i].type = "STOP_MARKET"}

TakeProfitCalls(w) ==
    SelectSeq(w.calls, LAMBDA c : IsCreate(c) /\ c.type # "STOP_MARKET")

\* the level a take-profit call is placed at
LevelOf(c) == IF c.type = "LIMIT" THEN c.price ELSE c.stopPrice

Levels(cs) == [i \in DOMAIN cs |-> LevelOf(cs[i])]

\* the open entry orders of a pair: neither reduce-only nor close-position
EntryOrders(os, pair) ==
    {o \in os : /\ o.status = "open" /\ o.symbol = to_ccxt_symbol(pair)
                /\ ~o.reduceOnly /\ ~o.closePosition}

\* the live stop-loss orders of a pair
LiveStops(os, pair) ==
    {o \in os : /\ o.status = "open" /\ o.symbol = to_ccxt_symbol(pair)
                /\ o.type = "STOP_MARKET" /\ o.closePosition}

HasPosition(pair) == positions[pair].qty > 0

----------------------------------------------------------------------------
\* C1: after any sequence of live entry submissions for a pair, whatever the
\* outcome of fetch_open_orders, cancel_order and create_order, the store holds
\* at most one PendingEntry record of the pair and the exchange at most one open
\* order of the pair that is not reduce-only.
C1_OneEntryPerPair ==
    \A p \in PAIRS :
        /\ Cardinality({fp \in files : fp.pair = p}) <= 1
        /\ Cardinality(EntryOrders(orders, p)) <= 1

----------------------------------------------------------------------------
\* Completion sweep

C2_Complete(fp) ==
    /\ Truthy(fp.order_id) /\ Truthy(fp.qty) /\ Truthy(fp.sl) /\ Truthy(fp.tp1)
    /\ fp.side \in {"buy", "sell"}

\* one accepted stop-loss (STOP_MARKET, close-position, opposite side, trigger = sl)
\* before any take-profit, the take-profits at the record's levels, the record gone
C2_Protected(w, fp) ==
    /\ Cardinality(StopIdx(w)) = 1
    /\ \A i \in StopIdx(w) :
        /\ w.calls[i].ok
        /\ w.calls[i].symbol = to_ccxt_symbol(fp.pair)
        /\ w.calls[i].closePosition
        /\ w.calls[i].side \in {"buy", "sell"} \ {fp.side}
        /\ w.calls[i].stopPrice = fp.sl
        /\ \A j \in CreateIdx(w) \ StopIdx(w) : i < j
    /\ \A j \in CreateIdx(w) : w.calls[j].ok
    /\ Levels(TakeProfitCalls(w)) = SelectSeq(<<fp.tp1, fp.tp2, fp.tp3>>, LAMBDA x : x # None)
    /\ \A j \in CreateIdx(w) \ StopIdx(w) : w.calls[j].side \in {"buy", "sell"} \ {fp.side}
    /\ ~HasFile(w, fp.pair)

C2_Untouched(w, fp) ==
    /\ CreateIdx(w) = {}
    /\ fp \in w.files

C2_Outcome(ord, f, fp) ==
    LET w == add_sl_tp_from_json(World, ord, f)
    IN  IF FetchOrderStatus(World, fp.order_id, to_ccxt_symbol(fp.pair), f) = "closed"
        THEN C2_Protected(w, fp)
        ELSE C2_Untouched(w, fp)

\* every order the sweep run submits is accepted by the exchange
C2_AllAccepted(ord, f) ==
    LET w == add_sl_tp_from_json(World, ord, f)
    IN  \A j \in CreateIdx(w) : w.calls[j].ok

C3_DeletesOnlyProtected ==
    \A ord \in GlobOrders, f \in SweepFaults : \A fp \in files :
        LET w == add_sl_tp_from_json(World, ord, f)
        IN  /\ ~HasFile(w, fp.pair) => \E i \in StopIdx(w) : w.calls[i].ok
            /\ (\E i \in StopIdx(w) : ~w.calls[i].ok) => fp \in w.files

----------------------------------------------------------------------------
\* Orphan cleanup

\* the pair has an open limit order or an open position on the exchange
C4_Mapped(pair) ==
    \/ \E o \in orders : /\ o.status = "open" /\ Lower(o.type) = "limit"
                         /\ o.symbol = to_ccxt_symbol(pair)
    \/ HasPosition(pair)

\* C4: remove_unmapped_limit_files keeps every record whose pair has an open limit
\* order or an open position, whatever the outcome of fetch_open_orders and
\* fetch_positions, and deletes exactly the records whose pair has neither.
C4_KeepsMappedRecords ==
    \A f \in PassFaults : \A fp \in files :
        fp \in remove_unmapped_limit_files(World, f).files <=> C4_Mapped(fp.pair)

\* C5: cancel_unpositioned_stops cancels no reduce-only or close-position order of
\* a pair that has an open position, whatever the outcome of fetch_positions.
C5_KeepsStopsOfPositions ==
    \A f \in PassFaults :
        LET w == cancel_unpositioned_stops(World, f)
        IN  \A i \in CancelIdx(w) : \A o \in orders :
                (o.id = w.calls[i].id /\ (o.reduceOnly \/ o.closePosition))
                    => ~HasPosition(norm_pair_from_symbol(o.symbol))

----------------------------------------------------------------------------
\* Expiry sweep

C6_Expired(fp) ==
    /\ Truthy(fp.expiry) /\ Truthy(fp.ts) /\ Truthy(fp.order_id)
    /\ now - fp.ts >= fp.expiry

C6_CancelIssued(w, fp) ==
    \E i \in CancelIdx(w) : w.calls[i].id = fp.order_id

\* C6: for every record that has reached its expiry, one run of
\* cancel_expired_limit_orders ends with the record deleted, and issues cancel_order
\* for the record's order exactly when the exchange does not report it closed.
C6_ExpiryDeletes ==
    \A ord \in GlobOrders, f \in ExpiryFaults : \A fp \in files :
        C6_Expired(fp) =>
            LET w == cancel_expired_limit_orders(World, ord, f)
                status == FetchOrderStatus(World, fp.order_id, to_ccxt_symbol(fp.pair), f)
            IN  /\ ~HasFile(w, fp.pair)
                /\ C6_CancelIssued(w, fp) <=> status # "closed"

\* an expired record whose order is filled: deleted without a cancel; the same
\* record under a failing fetch_order: deleted with a cancel
C6_Witness ==
    \E ord \in GlobOrders : \E fp \in files :
        /\ C6_Expired(fp)
        /\ FetchOrderStatus(World, fp.order_id, to_ccxt_symbol(fp.pair), NoFault) = "closed"
        /\ ~HasFile(cancel_expired_limit_orders(World, ord, NoFault), fp.pair)
        /\ ~C6_CancelIssued(cancel_expired_limit_orders(World, ord, NoFault), fp)
        /\ C6_CancelIssued(cancel_expired_limit_orders(World, ord,
                                [kinds |-> {"fetch_order"}, pairs |-> PAIRS]), fp)

----------------------------------------------------------------------------
\* Idempotence of the sweeps

\* the world a second run of a handler starts from: no call issued yet
Rerun(w) == [w EXCEPT !.calls = <<>>]

\* the second run changes neither records nor open orders and cancels nothing
C7_NoOp(w1, w2) ==
    /\ w2.files = w1.files
    /\ OpenOrders(w2) = OpenOrders(w1)
    /\ CancelIdx(w2) = {}

C7_Expiry(f1, f2) ==
    \A ord \in GlobOrders :
        LET w1 == cancel_expired_limit_orders(World, ord, f1)
        IN  C7_NoOp(w1, cancel_expired_limit_orders(Rerun(w1), ord, f2))

C7_Passes(f1, f2) ==
    /\ LET w1 == cancel_unpositioned_limits(World, f1)
       IN  C7_NoOp(w1, cancel_unpositioned_limits(Rerun(w1), f2))
    /\ LET w1 == remove_unmapped_limit_files(World, f1)
       IN  C7_NoOp(w1, remove_unmapped_limit_files(Rerun(w1), f2))
    /\ LET w1 == cancel_unpositioned_stops(World, f1)
       IN  C7_NoOp(w1, cancel_unpositioned_stops(Rerun(w1), f2))

----------------------------------------------------------------------------
\* MoveStop

\* C8: when run() carries out a move_sl for a pair with an open position, every
\* cancel_order is issued before the new stop is created, two stop-loss orders are
\* never live for the pair (also when a cancel_order fails), and afterwards the
\* stop-loss of the pair triggers at the requested price.
C8_MoveReplacesStop ==
    \A f \in Faults({"cancel_order"}, 1), ms \in MoveSlActs \ {<<>>} :
        LET m == ms[1]
            pos_map == positions_snapshot(World, f)
            w == MoveSlOne(World, pos_map, m, f)
        IN  (HasPosition(m.pair) /\ \E pos \in pos_map : pos.pair = m.pair) =>
                /\ \A i \in CancelIdx(w), j \in CreateIdx(w) : i < j
                /\ Cardinality(LiveStops(w.orders, m.pair)) <= 1
                /\ \A o \in LiveStops(w.orders, m.pair) : o.stopPrice = m.sl
                /\ LiveStops(w.orders, m.pair) # {}

----------------------------------------------------------------------------
\* Serialization of the jobs

\* the job has issued a mutating call for the pair and has another one to issue
MidPair(job, pair) ==
    /\ jobs[job].data.pair = pair
    /\ jobs[job].pc \in (CASE job = "run_job" -> {"save"}
                           [] job = "limit_job" -> {"unlink"}
                           [] job = "expiry_job" -> {"unlink"})

\* C9: the mutating calls and record writes/deletes of the three jobs for one pair
\* are serialized: no job performs a mutating step for a pair while another job is
\* between its first and its last mutating step for that pair (so two jobs are
\* never both between their first and last mutating step for the same pair).
C9_JobsSerialized ==
    \A p \in PAIRS : \A j \in Jobs, k \in Jobs :
        (j # k) => ~(MidPair(j, p) /\ MidPair(k, p))

----------------------------------------------------------------------------
\* Max-positions gate

C10_StartPositions == Cardinality({p \in PAIRS : HasPosition(p)})

\* run() stopped at the gate: no payload, no oracle call, no order, empty lists
C10_Aborted(w) ==
    /\ ~w.cycle.payload_built
    /\ ~w.cycle.oracle_called
    /\ CreateIdx(w) = {}
    /\ w.cycle.coins = <<>> /\ w.cycle.placed = <<>> /\ w.cycle.closed = <<>>
    /\ w.cycle.moved_sl = <<>> /\ w.cycle.closed_partial = <<>>

----------------------------------------------------------------------------
\* Limit on new entries

\* the coin lists of a cycle, one coin longer than the cycles of the state machine
C11_CoinLists == UNION {[1..n -> EnrichedCoins] : n \in 0..(MaxCoins + 1)}

C11_Room == IF MAX_OPEN_POSITIONS > C10_StartPositions
            THEN MAX_OPEN_POSITIONS - C10_StartPositions ELSE 0

\* C11: in every cycle, live or not, run() returns at most MAX_OPEN_POSITIONS minus
\* the number of open positions coins, and the open positions plus the entries it
\* places do not exceed MAX_OPEN_POSITIONS.
C11_CapsNewEntries ==
    \A live \in BOOLEAN, cs \in C11_CoinLists :
        LET w == run_cycle(World, live, NoFault, NoFault, "coins", "ok", cs, <<>>)
        IN  /\ Len(w.cycle.coins) <= C11_Room
            /\ C10_StartPositions + Len(w.cycle.placed) <= MAX_OPEN_POSITIONS

----------------------------------------------------------------------------
\* Proposals without take-profit

\* the proposal carries no take-profit
C12_NoTakeProfit(a) == a.tp1 = None /\ a.tp2 = None /\ a.tp3 = None

\* C12: for a proposal of the oracle that carries no take-profit, enrich_tp_qty
\* emits nothing and live run() places no entry order.
C12_NoEntryWithoutTakeProfit ==
    \A a \in Proposals, q \in Quantities :
        C12_NoTakeProfit(a) =>
            /\ EnrichOne(a, q) \notin EnrichedCoins
            /\ CreateIdx(run(World, NoFault, NoFault, TRUE, <<EnrichOne(a, q)>>, <<>>)) = {}

----------------------------------------------------------------------------
\* Dry run

\* the cycle issued no create_order, no cancel_order and left the records alone
C13_Untouched(w) ==
    /\ CreateIdx(w) = {} /\ CancelIdx(w) = {}
    /\ w.files = files /\ w.orders = orders

\* C13: run(run_live=False) issues no create_order and no cancel_order and creates
\* or deletes no PendingEntry record, whatever the oracle returns.
C13_DryRunTouchesNothing ==
    \A payload \in Payloads, oracle \in OracleOutcomes, cs \in CoinLists, ms \in MoveSlActs :
        C13_Untouched(run_cycle(World, FALSE, NoFault, NoFault, payload, oracle, cs, ms))

\* a state with a pending entry in which the same instructions, run live, cancel
\* the entry and create a new one, and run dry reach the end of the cycle
C13_Witness ==
    \E cs \in CoinLists, ms \in MoveSlActs :
        /\ cs # <<>> /\ ms # <<>>
        /\ files # {} /\ EntryOrders(orders, cs[1].pair) # {}
        /\ CancelIdx(run_cycle(World, TRUE, NoFault, NoFault, "coins", "ok", cs, ms)) # {}
        /\ CreateIdx(run_cycle(World, TRUE, NoFault, NoFault, "coins", "ok", cs, ms)) # {}
        /\ run_cycle(World, FALSE, NoFault, NoFault, "coins", "ok", cs, ms).cycle.written
        /\ C13_Untouched(run_cycle(World, FALSE, NoFault, NoFault, "coins", "ok", cs, ms))

----------------------------------------------------------------------------
\* Result record

\* C14: every invocation of run() has written its orders result record when it
\* ends: also when no instrument is eligible, when the gate stops the cycle, and
\* when build_payload or the oracle call fails.
C14_ResultAlwaysWritten ==
    \A live \in BOOLEAN, payload \in Payloads, oracle \in OracleOutcomes, cs \in CoinLists :
        run_cycle(World, live, NoFault, NoFault, payload, oracle, cs, <<>>).cycle.written

----------------------------------------------------------------------------
\* send_openai

C15_Running == tool.op = "send_openai"

C15_Done == tool.pc \in {"returned", "raised"}

\* the waits slept so far: 2 s after the first failure, 4 s after the second
C15_Waits == tool.waits = [i \in 1..Len(tool.waits) |-> 2 * i]

C15_Bounded ==
    /\ tool.calls <= MaxAttempts
    /\ C15_Waits
    /\ Len(tool.waits) <= MaxAttempts - 1
    /\ tool.pc = "sleep" => tool.calls < MaxAttempts
    /\ C15_Done => Len(tool.waits) = tool.calls - 1
    /\ \A i \in 1..tool.calls :
        (tool.script[i].kind = "transport" /\ i < MaxAttempts) =>
            (tool.pc = "sleep" \/ Len(tool.waits) >= i)

\* C15: send_openai makes at most 3 attempts, waits 2 s then 4 s between them
\* (every failed transport-level attempt but the last is followed by its wait),
\* never waits after the last attempt, and ends by returning or raising.
C15_SendTerminates == [](C15_Running => C15_Bounded) /\ <>(C15_Running /\ C15_Done)

\* three transport failures in a row: waits of 2 s and 4 s, then the error is raised
C15_Witness ==
    /\ C15_Running /\ tool.pc = "raised" /\ tool.calls = MaxAttempts
    /\ tool.waits = <<2, 4>>
    /\ \A i \in 1..MaxAttempts : tool.script[i].kind = "transport"

\* C16: a permanent oracle error makes send_openai raise at that attempt, with no
\* wait and no further attempt; only rate-limit, 5xx and transport errors are
\* retried; and a cycle of run() in which send_openai raises places no order.
C16_PermanentErrorAborts ==
    /\ C15_Running =>
        \A i \in 1..tool.calls :
            /\ tool.script[i].permanent => (tool.calls = i /\ tool.pc = "raised")
            /\ (i < tool.calls \/ tool.pc = "sleep") =>
                   \/ tool.script[i].kind = "transport"
                   \/ tool.script[i].status = 429
                   \/ tool.script[i].status >= 500
    /\ \A live \in BOOLEAN, cs \in CoinLists, ms \in MoveSlActs :
        CreateIdx(run_cycle(World, live, NoFault, NoFault, "coins", "raise", cs, ms)) = {}

----------------------------------------------------------------------------
\* parse_mini_actions

C17_Parsed == tool.op = "parse_mini_actions" /\ tool.pc = "done"

\* the take-profit, when supplied, lies strictly beyond entry on the profitable side
C17_Beyond(entry, sl, tp) ==
    tp = None \/ (entry > sl /\ tp > entry) \/ (entry < sl /\ tp < entry)

\* a coin entry the schema allows: a pair, numbers, entry # sl, take-profits on the
\* profitable side, a risk fraction inside (0, 1)
C17_ValidCoin(item) ==
    /\ item.pair # ""
    /\ Bad \notin {item.entry, item.sl, item.tp1, item.tp2, item.tp3, item.risk}
    /\ item.entry # None /\ item.sl # None /\ item.entry # item.sl
    /\ C17_Beyond(item.entry, item.sl, item.tp1)
    /\ C17_Beyond(item.entry, item.sl, item.tp2)
    /\ C17_Beyond(item.entry, item.sl, item.tp3)
    /\ item.risk = None \/ (0 < item.risk /\ item.risk < RiskScale)

C17_ValidPartial(item) ==
    item.pair # "" /\ item.pct # Bad /\ item.pct # None /\ 0 < item.pct /\ item.pct <= 100

\* the valid coin entries of the document, in order, with the pair normalised
C17_Coins(doc) ==
    LET kept == SelectSeq(doc.coins, C17_ValidCoin)
    IN  [i \in 1..Len(kept) |-> [kept[i] EXCEPT !.pair = PairNorm(@)]]

C17_Partials(doc) == SelectSeq(doc.close_partial, C17_ValidPartial)

\* C17: parse_mini_actions raises for no oracle text; an empty or unparseable text
\* gives no action; for a JSON object of the schema (close_all a boolean included)
\* every invalid entry is dropped and every valid entry is returned.
C17_ParserNeverRaises ==
    C17_Parsed =>
        /\ ~tool.result.raised
        /\ tool.args.kind # "object" =>
              /\ tool.result.acts.coins = <<>>
              /\ tool.result.acts.close_all = <<>>
              /\ tool.result.acts.close_partial = <<>>
        /\ tool.args.kind = "object" =>
              /\ tool.result.acts.coins = C17_Coins(tool.args)
              /\ tool.result.acts.close_partial = C17_Partials(tool.args)

\* every kind of action is in the block and every entry of it is valid
C18_WellFormed(doc) ==
    /\ doc.kind = "object"
    /\ doc.coins # <<>> /\ doc.close # <<>> /\ doc.move_sl # <<>> /\ doc.close_partial # <<>>
    /\ doc.close_all.t # "absent"
    /\ \A i \in 1..Len(doc.coins) : C17_ValidCoin(doc.coins[i])
    /\ \A i \in 1..Len(doc.close_partial) : C17_ValidPartial(doc.close_partial[i])

\* the close_all the block asks for
C18_CloseAllAsked(doc) ==
    IF doc.close_all.t = "bool" THEN doc.close_all.b ELSE doc.close_all.items # <<>>

\* C18: for a well-formed block with coins, close, move_sl, close_partial and
\* close_all, parse_mini_actions returns every action of the block under the key
\* run() reads it from.
C18_ParserReturnsEveryAction ==
    (C17_Parsed /\ C18_WellFormed(tool.args)) =>
        /\ ~tool.result.raised
        /\ ActsGet(tool.result.acts, "coins") = C17_Coins(tool.args)
        /\ ActsGet(tool.result.acts, "close") = tool.args.close
        /\ ActsGet(tool.result.acts, "move_sl") = tool.args.move_sl
        /\ ActsGet(tool.result.acts, "close_partial") = tool.args.close_partial
        /\ (ActsGet(tool.result.acts, "close_all") # <<>>) = C18_CloseAllAsked(tool.args)

----------------------------------------------------------------------------
\* infer_side

C19_Inferred == tool.op = "infer_side" /\ tool.pc = "done" /\ tool.args.entry # tool.args.sl

\* every coin the parser returns has its take-profits beyond entry
C19_OffsideRejected ==
    C17_Parsed =>
        \A i \in 1..Len(tool.result.acts.coins) :
            LET c == tool.result.acts.coins[i]
            IN  /\ C17_Beyond(c.entry, c.sl, c.tp1)
                /\ C17_Beyond(c.entry, c.sl, c.tp2)
                /\ C17_Beyond(c.entry, c.sl, c.tp3)

----------------------------------------------------------------------------
\* calc_qty

C20_Sized ==
    /\ tool.op = "calc_qty" /\ tool.pc = "done"
    /\ tool.args.capital > 0 /\ tool.args.entry # tool.args.sl

C20_With(capital, dist) ==
    calc_qty(capital, tool.args.risk_frac, tool.args.entry, tool.args.entry - dist,
             tool.args.step, tool.args.max_leverage, tool.args.contract_size)

----------------------------------------------------------------------------
\* calc_qty: step and ceilings

C21_Valued == tool.op = "calc_qty_value" /\ tool.pc = "done"

C21_Dist == IF tool.args.entry >= tool.args.sl
            THEN tool.args.entry - tool.args.sl ELSE tool.args.sl - tool.args.entry

\* the quantity n / d is an integer multiple of step
C21_Multiple(q, step) ==
    IF step = 0 THEN q.n = 0 ELSE q.n % (q.d * step) = 0

\* a quantity is returned; it is a multiple of step, at most the leverage ceiling
\* capital * max_leverage / (entry * contract_size), at most the risk quantity
\* capital * risk_frac / dist, and 0 when dist, risk_frac or capital is not positive
C21_Within ==
    LET q == tool.result
        a == tool.args
    IN  /\ ~q.raised
        /\ C21_Multiple(q, a.step)
        /\ (C21_Dist <= 0 \/ a.risk_frac <= 0 \/ a.capital <= 0) => q.n = 0
        /\ (C21_Dist > 0 /\ a.risk_frac > 0 /\ a.capital > 0) =>
              /\ q.n * (a.entry * a.contract_size) <= a.capital * a.max_leverage * q.d
              /\ q.n * (RiskScale * C21_Dist) <= a.capital * a.risk_frac * q.d

\* C21 (as stated): for every input calc_qty returns an integer multiple of step,
\* at most the leverage ceiling and at most the risk quantity, and 0 when
\* distance, risk fraction or capital is not positive.
C21_QtyWithinLimits == C21_Valued => C21_Within

\* C21 (amended): the same for the inputs with a positive step and a positive
\* entry * contract_size.
C21_QtyWithinLimitsPositiveStep ==
    (C21_Valued /\ tool.args.step > 0 /\ tool.args.entry * tool.args.contract_size > 0)
        => C21_Within

\* a quantity cut by the leverage ceiling and rounded down to a step of 2
C21_Witness ==
    /\ C21_Valued /\ tool.args.step = 2 /\ tool.args.entry > 0
    /\ tool.result.n > 0
    /\ tool.result.n * tool.args.entry < tool.args.capital * tool.args.max_leverage
    /\ tool.args.capital * tool.args.risk_frac * tool.args.entry
          > tool.args.capital * tool.args.max_leverage * RiskScale * C21_Dist

----------------------------------------------------------------------------
\* build_payload: what it selects

C22_Built == tool.op = "build_payload" /\ tool.pc = "done"

C22_Selected == Range(tool.result.symbols)

\* the base of a selected symbol with its numeric prefix stripped
C22_StrippedBase(s) == strip_numeric_prefix(PairBase(norm_pair_symbol(s)))

C22_AtMostLimit == Len(tool.result.symbols) <= tool.args.limit

C22_NoneExcluded ==
    \A s \in C22_Selected : norm_pair_symbol(s) \notin tool.args.exclude_pairs

C22_NoneBlacklisted ==
    \A s \in C22_Selected : s.base \notin BLACKLIST_BASES /\ C22_StrippedBase(s) \notin BLACKLIST_BASES

C22_BasesDiffer ==
    \A i, j \in 1..Len(tool.result.symbols) :
        C22_StrippedBase(tool.result.symbols[i]) = C22_StrippedBase(tool.result.symbols[j]) => i = j

C22_NoneHeld == \A s \in C22_Selected : norm_pair_symbol(s) \notin tool.args.held

C23_Remaining ==
    {b \in Range(top_by_market_cap(tool.args.listing, 200)) :
        /\ b \notin {C22_StrippedBase(s) : s \in C22_Selected}
        /\ \E m \in Range(load_usdtm(tool.args.listed)) :
              /\ strip_numeric_prefix(m) = b
              /\ norm_pair_symbol(MarketSymbol(m)) \notin tool.args.exclude_pairs
              /\ norm_pair_symbol(MarketSymbol(m)) \notin tool.args.held}

\* C23: the selection is filled from the market-cap ranking until `limit` is
\* reached or no market-cap base has a tradable, non-excluded, position-free
\* market whose base is not yet used.
C23_FilledFromMarketCap ==
    C22_Built => (Len(tool.result.symbols) >= tool.args.limit \/ C23_Remaining = {})

----------------------------------------------------------------------------
\* Stale limit orders

\* the open order a cancel_order call names
C24_Target(c) == CHOOSE o \in orders : o.id = c.id

\* a PendingEntry record matches the order
C24_Recorded(o) ==
    \E fp \in files : fp.pair = norm_pair_from_symbol(o.symbol) /\ fp.order_id = o.id

\* C24: cancel_unpositioned_limits cancels an open order only if it is a limit
\* order that is not reduce-only, its pair has no open position, no PendingEntry
\* record matches it and its age is at least the staleness threshold; it deletes
\* a pair's record only after a successful cancel of that pair's order.
C24_CancelsOnlyLostLimits ==
    \A f \in PassFaults :
        LET w == cancel_unpositioned_limits(World, f)
        IN  /\ \A i \in CancelIdx(w) :
                  /\ \E o \in OpenOrders(World) : o.id = w.calls[i].id
                  /\ ~C24_Target(w.calls[i]).reduceOnly
                  /\ Lower(C24_Target(w.calls[i]).type) = "limit"
                  /\ ~HasPosition(norm_pair_from_symbol(C24_Target(w.calls[i]).symbol))
                  /\ ~C24_Recorded(C24_Target(w.calls[i]))
                  /\ now - C24_Target(w.calls[i]).timestamp >= MAX_AGE_SEC
            /\ \A fp \in files :
                  fp \notin w.files =>
                      \E i \in CancelIdx(w) :
                          /\ w.calls[i].ok
                          /\ norm_pair_from_symbol(w.calls[i].symbol) = fp.pair

----------------------------------------------------------------------------
\* Orphaned protective orders

\* the open reduce-only or close-position orders of a pair
C25_Protective(os, pair) ==
    {o \in os : /\ o.status = "open" /\ o.symbol = to_ccxt_symbol(pair)
                /\ (o.reduceOnly \/ o.closePosition)}

\* C25: after cancel_unpositioned_stops has run against an exchange that answers
\* every call, no reduce-only or close-position order (stop-loss, take-profit,
\* reduce-only limit take-profit leg) is open for a pair without a position.
C25_NoOrphanProtection ==
    \A p \in PAIRS :
        ~HasPosition(p) =>
            C25_Protective(cancel_unpositioned_stops(World, NoFault).orders, p) = {}

----------------------------------------------------------------------------
\* The break-even move

\* the calls of a run that name the pair
C26_CallsFor(w, pair) ==
    {i \in DOMAIN w.calls : w.calls[i].symbol = to_ccxt_symbol(pair)}

\* the run created a stop order at the entry price of the pair's position
C26_Moved(w, pair) ==
    \E i \in StopIdx(w) :
        /\ w.calls[i].ok /\ w.calls[i].symbol = to_ccxt_symbol(pair)
        /\ w.calls[i].stopPrice = positions[pair].entry

C27_InFavour(pos, price) ==
    IF pos.side = "buy"
    THEN price >= pos.entry + Abs(pos.entry - pos.sl)
    ELSE price <= pos.entry - Abs(pos.entry - pos.sl)

\* C27: move_sl_to_entry issues a cancel_order or a create_order for a pair only
\* when the price has moved in the position's favour by at least |entry - sl|.
C27_MovesOnlyInFavour ==
    \A price \in Prices, f \in BreakEvenFaults : \A p \in PAIRS :
        C26_CallsFor(move_sl_to_entry(World, price, f), p) # {} =>
            \E pos \in positions_snapshot(World, NoFault) :
                pos.pair = p /\ pos.sl # None /\ C27_InFavour(pos, price)

\* the open take-profit orders of a position: reduce-only or close-position
\* orders on the profitable side of entry
C28_TakeProfits(os, pair) ==
    {o \in os : /\ o.status = "open" /\ o.symbol = to_ccxt_symbol(pair)
                /\ (o.reduceOnly \/ o.closePosition)
                /\ IF positions[pair].side = "buy"
                   THEN ExtractPrice(o) > positions[pair].entry
                   ELSE ExtractPrice(o) # None /\ ExtractPrice(o) < positions[pair].entry}

\* C28: when the move fires for a position with live take-profit orders, every
\* take-profit order stays live, and afterwards the pair has exactly one
\* stop-loss order: close-position, on the exit side, triggering at entry.
C28_MoveKeepsTakeProfits ==
    \A price \in Prices : \A p \in PAIRS :
        LET w == move_sl_to_entry(World, price, NoFault)
        IN  (C26_Moved(w, p) /\ C28_TakeProfits(orders, p) # {}) =>
                /\ C28_TakeProfits(w.orders, p) = C28_TakeProfits(orders, p)
                /\ \E o \in LiveStops(w.orders, p) :
                      /\ LiveStops(w.orders, p) = {o}
                      /\ o.side = ExitSide(positions[p].side)
                      /\ o.stopPrice = positions[p].entry

----------------------------------------------------------------------------
\* close_all

\* the oracle document sets close_all
C29_Asked(doc) ==
    \/ doc.close_all.t = "bool" /\ doc.close_all.b
    \/ doc.close_all.t = "list" /\ doc.close_all.items # <<>>

\* the MARKET create_order calls of a run for a pair
C29_Closes(w, pair) ==
    {i \in CreateIdx(w) : w.calls[i].type = "MARKET" /\ w.calls[i].symbol = to_ccxt_symbol(pair)}

\* one close order for the pair, on the exit side, reduce-only and close-position,
\* issued after the cancel_order calls of the pair, its record deleted
C29_ClosedProperly(w, pos) ==
    /\ \E i \in C29_Closes(w, pos.pair) :
          /\ C29_Closes(w, pos.pair) = {i}
          /\ w.calls[i].side = ExitSide(pos.side)
          /\ w.calls[i].reduceOnly /\ w.calls[i].closePosition
          /\ \A j \in CancelIdx(w) : w.calls[j].symbol = to_ccxt_symbol(pos.pair) => j < i
    /\ ~HasFile(w, pos.pair)

\* C29: when the oracle output sets close_all, a live run() issues for every pair
\* of the payload's positions one MARKET order on the opposite side, reduce-only
\* and close-position, after the cancels of the pair's open orders and the
\* deletion of its record, and `closed` lists exactly the pairs whose close
\* order was accepted.
C29_CloseAllClosesEveryPosition ==
    \A f0 \in PassFaults, f \in CloseFaults, doc \in CloseAllDocs :
        LET w0 == RunCleanup(World, f0)
            w == run_close_all(World, f0, f, doc)
        IN  (C29_Asked(doc) /\ CurrentPos(w0, f0) < MAX_OPEN_POSITIONS) =>
                /\ \A pos \in positions_snapshot(w0, f) : C29_ClosedProperly(w, pos)
                /\ {w.cycle.closed[i].pair : i \in DOMAIN w.cycle.closed}
                      = {p \in PAIRS : \E i \in C29_Closes(w, p) : w.calls[i].ok}

\* C29 for the documents whose close_all is a list of {pair}
C29_CloseAllListClosesEveryPosition ==
    \A f0 \in PassFaults, f \in CloseFaults, doc \in CloseAllDocs :
        LET w0 == RunCleanup(World, f0)
            w == run_close_all(World, f0, f, doc)
        IN  (doc.close_all.t = "list" /\ CurrentPos(w0, f0) < MAX_OPEN_POSITIONS) =>
                /\ \A pos \in positions_snapshot(w0, f) : C29_ClosedProperly(w, pos)
                /\ {w.cycle.closed[i].pair : i \in DOMAIN w.cycle.closed}
                      = {p \in PAIRS : \E i \in C29_Closes(w, p) : w.calls[i].ok}

----------------------------------------------------------------------------
\* End to end: one take-profit

\* the proposal names exactly one take-profit
C30_OneTakeProfit(a) == a.tp1 # None /\ a.tp2 = None /\ a.tp3 = None

\* the exchange has filled the entry order of the pair's record
C30_Filled(w, pair) ==
    LET fp == FileOf(w, pair)
        o == OrderById(w, fp.order_id)
    IN  [w EXCEPT !.orders = {IF x.id = o.id THEN [x EXCEPT !.status = "closed"] ELSE x
                              : x \in w.orders},
                  !.positions = [w.positions EXCEPT ![pair] =
                                    [side |-> o.side, qty |-> o.qty, entry |-> o.price]],
                  !.calls = <<>>]

\* C30: for a proposal with exactly one take-profit, sizing, submission, the fill
\* of the entry and the completion sweep place exactly one stop order, at the
\* proposal's stop-loss, and exactly one take-profit order, at the proposal's
\* take-profit, and the PendingEntry record is then deleted.
C30_OneTakeProfitEndToEnd ==
    \A a \in Proposals, q \in Quantities :
        LET w1 == run(World, NoFault, NoFault, TRUE, <<EnrichOne(a, q)>>, <<>>)
        IN  (C30_OneTakeProfit(a) /\ w1.placed # <<>>) =>
                LET w3 == add_sl_tp_from_json(C30_Filled(w1, a.pair), <<a.pair>>, NoFault)
                IN  /\ \E i \in StopIdx(w3) :
                          StopIdx(w3) = {i} /\ w3.calls[i].ok /\ w3.calls[i].stopPrice = a.sl
                    /\ Levels(TakeProfitCalls(w3)) = <<a.tp1>>
                    /\ ~HasFile(w3, a.pair)

\* the same flow: one stop at the proposal's stop-loss, the take-profit legs at
\* tp1 and at the default levels of enrich_tp_qty, the record deleted
C30_ThreeLegsEndToEnd ==
    \A a \in Proposals, q \in Quantities :
        LET w1 == run(World, NoFault, NoFault, TRUE, <<EnrichOne(a, q)>>, <<>>)
        IN  (C30_OneTakeProfit(a) /\ w1.placed # <<>>) =>
                LET w3 == add_sl_tp_from_json(C30_Filled(w1, a.pair), <<a.pair>>, NoFault)
                IN  /\ \E i \in StopIdx(w3) :
                          StopIdx(w3) = {i} /\ w3.calls[i].ok /\ w3.calls[i].stopPrice = a.sl
                    /\ Levels(TakeProfitCalls(w3))
                          = <<a.tp1, a.entry + (3 * (a.entry - a.sl)) \div 2,
                              a.entry + (3 * (a.entry - a.sl)) \div 2>>
                    /\ ~HasFile(w3, a.pair)

----------------------------------------------------------------------------
\* C31

C31_Mapped == tool.op = "to_ccxt_symbol" /\ tool.pc = "done"

\* the symbol is of the form BASE/QUOTE
C31_Plain == ~tool.args.settle

\* BASEQUOTE also ends with a longer known quote after a non-empty base
C31_LongerQuote ==
    \E k \in 1..Len(KNOWN_QUOTES) :
        /\ Len(KNOWN_QUOTES[k]) > Len(tool.args.quote)
        /\ EndsWith(Upper(tool.args.base) \o tool.args.quote, KNOWN_QUOTES[k])
        /\ Len(tool.args.base) + Len(tool.args.quote) > Len(KNOWN_QUOTES[k])

C31_UpperBase == Upper(tool.args.base) = tool.args.base

C31_RoundTrip ==
    /\ tool.result.symbol = SymbolOf(tool.args)
    /\ tool.result.back = tool.result.pair

\* C31 (as stated): for every symbol s = BASE/QUOTE with a non-empty BASE and a
\* known QUOTE, to_ccxt_symbol(_norm_pair_from_symbol(s)) = s, and for the pair p
\* obtained from s, _norm_pair_from_symbol(to_ccxt_symbol(p)) = p.
C31_SymbolRoundTrip == (C31_Mapped /\ C31_Plain) => C31_RoundTrip

\* C31 (amended): the same for an upper-case BASE such that BASEQUOTE ends with
\* no longer known quote; the pair-side round trip holds for every such symbol.
C31_SymbolRoundTripWhenUnambiguous ==
    (C31_Mapped /\ C31_Plain) =>
        /\ tool.result.back = tool.result.pair
        /\ (C31_UpperBase /\ ~C31_LongerQuote) => C31_RoundTrip

\* XB/USD has gone through both conversions and come back as X/BUSD
C31_Ambiguous ==
    /\ C31_Mapped /\ C31_Plain /\ C31_UpperBase /\ C31_LongerQuote
    /\ tool.result.symbol # SymbolOf(tool.args)

\* a base ending in B with the quote BTC has gone through both conversions
C31_Witness ==
    /\ C31_Mapped /\ C31_Plain /\ C31_UpperBase /\ ~C31_LongerQuote
    /\ tool.args.base = <<"X", "B">> /\ tool.args.quote = <<"B", "T", "C">>
    /\ tool.result.pair = <<"X", "B", "B", "T", "C">>
    /\ C31_RoundTrip

----------------------------------------------------------------------------
\* C32

\* C32: in live_loop an exception raised inside one run of the cycle job, the
\* completion-sweep job or the expiry-sweep job is contained in that run: the job
\* is called again at its next time, and the other jobs keep being called.
C32_ExceptionContained ==
    \A job \in Jobs :
        /\ (jobs[job].pc = "except") ~> (jobs[job].pc = "try")
        /\ []<>(jobs[job].pc = "try")

\* the completion sweep has raised in its job while the cycle job is being run
C32_Witness ==
    /\ jobs["limit_job"].pc = "except"
    /\ jobs["run_job"].pc = "try"

----------------------------------------------------------------------------
\* C33

\* a second record on disk: the entry of ETHUSDT, filled, written one expiry ago
C33_Other == "ETHUSDT"

C33_Coin ==
    [pair |-> C33_Other, entry |-> 100, sl |-> 90, tp1 |-> 110, tp2 |-> None, tp3 |-> None,
     qty |-> 10, side |-> "buy"]

C33_World ==
    LET w == CreateOrder(World, to_ccxt_symbol(C33_Other), "limit", "buy", 10, 100, None,
                         FALSE, FALSE, TRUE)
    IN  [w EXCEPT
            !.orders = {IF o.id = World.nextId THEN [o EXCEPT !.status = "closed"] ELSE o
                        : o \in w.orders},
            !.files = @ \cup {PendingEntry(C33_Coin, World.nextId,
                                           now - LIMIT_ORDER_EXPIRY_MIN * 60)},
            !.calls = <<>>]

\* the orders in which glob("*.json") may list the two files
C33_Orders == {<<"BTCUSDT", C33_Other>>, <<C33_Other, "BTCUSDT">>}

\* the completion sweep has dealt with the second record
C33_Completed(w) ==
    /\ ~w.raised
    /\ ~HasFile(w, C33_Other)
    /\ \E i \in StopIdx(w) : w.calls[i].symbol = to_ccxt_symbol(C33_Other) /\ w.calls[i].ok

\* the expiry sweep has dealt with the second record
C33_Expired(w) == ~w.raised /\ ~HasFile(w, C33_Other)

\* C33 (expiry sweep): whatever fails for the record of BTCUSDT, the expiry
\* sweep does not crash and still deals with the expired record of ETHUSDT.
C33_ExpirySweepSkipsBadRecords ==
    now > LIMIT_ORDER_EXPIRY_MIN * 60 =>
        \A ord \in C33_Orders, f \in ExpiryFaults :
            C33_Expired(cancel_expired_limit_orders(C33_World, ord, f))

\* C33: in the completion sweep and in the expiry sweep a record that cannot be
\* processed (fetch_order failure, rejected protective order) is skipped without
\* crashing the sweep, and every other record present at the start of the run is
\* still processed in the same run.
C33_SweepsSkipBadRecords ==
    /\ C33_ExpirySweepSkipsBadRecords
    /\ \A ord \in C33_Orders, f \in SweepFaults :
            C33_Completed(add_sl_tp_from_json(C33_World, ord, f))


\* C33 (completion sweep): when no protective order of BTCUSDT is rejected with
\* an error other than "max stop order", the completion sweep does not crash
\* and still protects ETHUSDT and deletes its record.
C33_CompletionSweepSkipsUnlessRejected ==
    \A ord \in C33_Orders, f \in SweepFaults :
        f.kinds \cap {"create_sl_error", "create_tp_error"} = {} =>
            C33_Completed(add_sl_tp_from_json(C33_World, ord, f))

----------------------------------------------------------------------------
\* C34

\* the entry of the record has filled and its pair has no live stop-loss
C34_FilledUnprotected(w, fp) ==
    /\ \E o \in w.orders : o.id = fp.order_id /\ o.status = "closed"
    /\ w.positions[fp.pair].qty > 0
    /\ LiveStops(w.orders, fp.pair) = {}

\* the record is still there, or the pair has its stop-loss
C34_Safe(w, fp) == HasFile(w, fp.pair) \/ LiveStops(w.orders, fp.pair) # {}

\* C34: with an exchange that answers every call, every entry order that fills
\* while its PendingEntry record exists gets a stop-loss from the sweeps; in
\* particular no run of the completion sweep or of the expiry sweep deletes the
\* record of a filled entry before a stop-loss is placed for its pair.
C34_FilledEntryGetsStop ==
    \A ord \in GlobOrders : \A fp \in files :
        C34_FilledUnprotected(World, fp) =>
            /\ C34_Safe(add_sl_tp_from_json(World, ord, NoFault), fp)
            /\ C34_Safe(cancel_expired_limit_orders(World, ord, NoFault), fp)

\* C34 (completion sweep alone): the completion sweep places the stop-loss of a
\* filled entry before it deletes the record.
C34_CompletionSweepProtectsFirst ==
    \A ord \in GlobOrders : \A fp \in files :
        C34_FilledUnprotected(World, fp) =>
            LiveStops(add_sl_tp_from_json(World, ord, NoFault).orders, fp.pair) # {}

----------------------------------------------------------------------------
\* C35

\* no job is running
C35_AllDone == \A j \in Jobs : jobs[j].pc = "idle"

\* the live entry order of the pair has a record that carries its order id
C35_Recorded(o) ==
    \E fp \in files : fp.pair = norm_pair_from_symbol(o.symbol) /\ fp.order_id = o.id

\* C35: when the cycle replaces the entry of a pair (cancel_all_orders_for_pair,
\* create_order, write record) while an expiry or completion sweep that has read
\* the previous record is still running, the sweep neither deletes the new record
\* nor cancels the new order: when the jobs have finished, the live entry order
\* placed by the cycle has a PendingEntry record carrying its order id.
C35_ReplacedEntryKeepsRecord ==
    C35_AllDone => \A p \in PAIRS : \A o \in EntryOrders(orders, p) : C35_Recorded(o)

----------------------------------------------------------------------------
\* C36

\* the calls the entry loop issued for a pair
C36_CallsFor(w, pair) == {i \in DOMAIN w.calls : w.calls[i].symbol = to_ccxt_symbol(pair)}

\* C36: the entry-placement loop of run() never submits an entry order for, and
\* never cancels an open order of, a pair that has an open position on the exchange
\* when the loop runs, for every outcome of the fetch_positions call.
C36_EntryLoopSparesPositions ==
    \A cs \in CoinLists, f \in ActFaults : \A p \in PAIRS :
        HasPosition(p) => C36_CallsFor(RunActs(World, cs, <<>>, f), p) = {}

\* C36 (fetch_positions answers): the same when the fetch_positions call of the
\* loop succeeds.
C36_EntryLoopSparesPositionsRead ==
    \A cs \in CoinLists, f \in ActFaults : \A p \in PAIRS :
        (HasPosition(p) /\ ~FailsAny(f, "fetch_positions")) =>
            C36_CallsFor(RunActs(World, cs, <<>>, f), p) = {}

----------------------------------------------------------------------------
\* C37

\* the close instruction of the oracle for a pair, carried out by the close loop
C37_Close(pair, f) ==
    CloseLoop(World, positions_snapshot(World, NoFault), <<[pair |-> pair]>>, f)

\* the MARKET close order of the pair was submitted and rejected
C37_Rejected(w, pair) ==
    \E i \in CreateIdx(w) :
        /\ w.calls[i].type = "MARKET" /\ w.calls[i].symbol = to_ccxt_symbol(pair)
        /\ ~w.calls[i].ok

\* C37: if the market close order of an explicit close instruction is rejected by
\* the exchange, the stop-loss order of the position that was live before is
\* still live after the cycle.
C37_FailedCloseKeepsStop ==
    \A f \in CloseFaults : \A p \in PAIRS :
        (HasPosition(p) /\ C37_Rejected(C37_Close(p, f), p)) =>
            LiveStops(orders, p) \subseteq LiveStops(C37_Close(p, f).orders, p)

----------------------------------------------------------------------------
\* C38

\* the record as run() writes it when LIMIT_ORDER_EXPIRY_MIN is unset (expiry
\* None, lines 419-420), and as it is when it has just been written (ts = now)
C38_Variants(fp) ==
    {[fp EXCEPT !.expiry = e, !.ts = t] : e \in {fp.expiry, None}, t \in {fp.ts, now}}

\* the world with the record `v` in the place of `fp`
C38_With(fp, v) == [World EXCEPT !.files = (files \ {fp}) \cup {v}]

\* the record is younger than its expiry, or has no expiry value
C38_NotDue(v) == v.expiry = None \/ now - v.ts < v.expiry

\* the sweep did nothing about the record
C38_Untouched(w, v) == v \in w.files /\ CancelIdx(w) = {}

\* C38: the expiry sweep leaves untouched (no cancel_order, record kept with
\* unchanged content) every PendingEntry record whose age is less than its expiry
\* and every record that has no expiry value.
C38_ExpirySparesYoungRecords ==
    \A ord \in GlobOrders, f \in ExpiryFaults : \A fp \in files : \A v \in C38_Variants(fp) :
        C38_NotDue(v) => C38_Untouched(cancel_expired_limit_orders(C38_With(fp, v), ord, f), v)

\* a record that the sweep deletes, its order cancelled, while it leaves the same
\* record alone when it has no expiry value and when it has just been written
C38_Witness ==
    \E ord \in GlobOrders : \E fp \in files :
        /\ C6_Expired(fp)
        /\ CancelIdx(cancel_expired_limit_orders(World, ord, NoFault)) # {}
        /\ ~HasFile(cancel_expired_limit_orders(World, ord, NoFault), fp.pair)
        /\ \A v \in C38_Variants(fp) \ {fp} :
              /\ C38_NotDue(v)
              /\ C38_Untouched(cancel_expired_limit_orders(C38_With(fp, v), ord, NoFault), v)

----------------------------------------------------------------------------
\* C39

\* the quantity the protective orders are placed for
C39_Qty == CHOOSE q \in Quantities : TRUE

\* the take-profit orders _place_sl_tp places for a long of C39_Qty
C39_Legs(tp2, tp3) ==
    SelectSeq(TakeProfitCalls(place_sl_tp(World, "BTC/USDT", "buy", C39_Qty, 90, 110, tp2, tp3,
                                          NoFault)),
              LAMBDA c : c.ok)

RECURSIVE C39_Sum(_)
C39_Sum(legs) == IF legs = <<>> THEN 0 ELSE Head(legs).qty + C39_Sum(Tail(legs))

\* the leg placed at `level` has `tenths` tenths of the quantity
C39_Share(legs, level, tenths) ==
    \A i \in DOMAIN legs : LevelOf(legs[i]) = level => legs[i].qty * 10 = C39_Qty * tenths

C39_Split(tp2, tp3) ==
    /\ (tp2 # None \/ tp3 # None) =>
          /\ C39_Share(C39_Legs(tp2, tp3), 110, 3)
          /\ C39_Share(C39_Legs(tp2, tp3), 115, 5)
          /\ C39_Share(C39_Legs(tp2, tp3), 120, 2)
    /\ C39_Sum(C39_Legs(tp2, tp3)) = C39_Qty

\* C39: whenever _place_sl_tp places split take-profit legs for a quantity qty,
\* the legs are 30%, 50% and 20% of qty for tp1, tp2 and tp3, and the quantities
\* of the take-profit orders placed sum to qty, for every combination of tp2 and
\* tp3 being present or absent.
C39_LegsSumToQty == \A tp2 \in {None, 115}, tp3 \in {None, 120} : C39_Split(tp2, tp3)

\* C39 (both or neither): the same when tp2 and tp3 are both present or both absent.
C39_LegsSumToQtyWhenBothOrNeither ==
    \A tp2 \in {None, 115}, tp3 \in {None, 120} :
        ((tp2 = None) <=> (tp3 = None)) => C39_Split(tp2, tp3)

====
